---- MODULE Spec2Model ----
(***************************************************************************)
(* GHG-Port: a model of the quantitative core in utils/risk_calc.py.       *)
(*                                                                         *)
(*   SpecSim       run_portfolio_simulation, one step per loop iteration   *)
(*   SpecCorr      build_project_correlation_matrix, called repeatedly on  *)
(*                 the same caller-owned tables                            *)
(*                                                                         *)
(* Numbers are integers (volumes) or exact rationals <<num, den>>; an      *)
(* IEEE division result is a rational, NaN, +Inf or -Inf.  The Monte Carlo *)
(* sample standard deviation is a nondeterministic non-negative value.     *)
(***************************************************************************)
EXTENDS Integers, Sequences, FiniteSets, TLC

VARIABLES
    pc,                          \* position of the modelled call
    yearly_portfolio_df,         \* the schedule table passed to the simulator
    project_correlation_matrix,  \* the matrix argument of the simulator
    num_simulations,             \* the n argument of the simulator
    year,                        \* loop variable of the simulator
    results,                     \* the simulator's local result list
    outcome,                     \* what the latest call delivered to its caller
    technology_correlation_matrix_df,  \* the caller's technology matrix table
    country_correlation_matrix_df,     \* the caller's country matrix table
    returns,                     \* what each call of the matrix builder delivered
    portfolio_df,                \* the project table given to create_yearly_portfolio
    calls,                       \* the validator and main-stage calls made so far
    draws,                       \* the slices of the global random stream drawn so far
    file_path                    \* the file at the path given to load_excel_data

simVars == <<project_correlation_matrix, num_simulations, year, results>>

corrVars == <<technology_correlation_matrix_df, country_correlation_matrix_df, returns>>

vars ==
    <<pc, yearly_portfolio_df, outcome, simVars, corrVars, portfolio_df, calls, draws,
      file_path>>

(***************************************************************************)
(* Bounds of the model.                                                    *)
(***************************************************************************)
MaxProjects == 2
MaxStartOffset == 2
MaxDuration == 2
MaxStd == 1
MaxSimulations == 2
MaxCorrProjects == 3
MaxCalls == 2
MaxRows == 2
MaxYearIndex == 2
MaxScheduleOffset == 1
MaxMatrixSize == 2
MaxResultRows == 2

\* Earliest start year of the modelled schedules.
FirstYear == 2020

\* A table cell is <<v>> when it holds the number v and Null (NaN) when it is missing.
Null == <<>>

(***************************************************************************)
(* Arithmetic helpers.                                                     *)
(***************************************************************************)
Abs(x) == IF x < 0 THEN -x ELSE x

RECURSIVE GCD(_, _)
GCD(a, b) == IF b = 0 THEN a ELSE GCD(b, a % b)

\* The exact quotient a / b (b # 0) as a reduced fraction with positive denominator.
Frac(a, b) ==
    LET g == GCD(Abs(a), Abs(b))
        s == IF b < 0 THEN -1 ELSE 1
    IN  <<(s * a) \div g, (s * b) \div g>>

\* Float division as NumPy performs it: x / 0 is nan or +-inf (a warning, no exception).
FloatDiv(a, b) ==
    IF b # 0 THEN [kind |-> "num", q |-> Frac(a, b)]
    ELSE IF a = 0 THEN [kind |-> "nan"]
    ELSE IF a > 0 THEN [kind |-> "inf"]
    ELSE [kind |-> "-inf"]

RECURSIVE SumSeq(_)
SumSeq(s) == IF s = <<>> THEN 0 ELSE Head(s) + SumSeq(Tail(s))

\* A fill that puts 1 in the place of a missing value.
fillna0_One(cell) == IF cell = Null THEN 1 ELSE cell[1]

\* Series.fillna(0)
fillna0(cell) == IF cell = Null THEN 0 ELSE cell[1]

\* The subsequence of s at the positions where mask is TRUE (boolean indexing).
RECURSIVE SelectMask(_, _)
SelectMask(s, mask) ==
    IF s = <<>> THEN <<>>
    ELSE IF Head(mask) THEN <<Head(s)>> \o SelectMask(Tail(s), Tail(mask))
    ELSE SelectMask(Tail(s), Tail(mask))

RECURSIVE SeqMin(_)
SeqMin(s) ==
    IF Len(s) = 1 THEN s[1]
    ELSE LET m == SeqMin(Tail(s)) IN IF Head(s) < m THEN Head(s) ELSE m

RECURSIVE SeqMax(_)
SeqMax(s) ==
    IF Len(s) = 1 THEN s[1]
    ELSE LET m == SeqMax(Tail(s)) IN IF Head(s) > m THEN Head(s) ELSE m

\* Determinant of a square matrix given as a sequence of rows (cofactor expansion).
RECURSIVE Det(_)
Det(m) ==
    IF Len(m) = 0 THEN 1
    ELSE IF Len(m) = 1 THEN m[1][1]
    ELSE LET n == Len(m)
             Minor(j) == [r \in 1..(n - 1) |->
                            [c \in 1..(n - 1) |-> m[r + 1][IF c < j THEN c ELSE c + 1]]]
             RECURSIVE Expand(_)
             Expand(j) ==
                IF j > n THEN 0
                ELSE (IF j % 2 = 1 THEN 1 ELSE -1) * m[1][j] * Det(Minor(j)) + Expand(j + 1)
         IN  Expand(1)

(***************************************************************************)
(* run_portfolio_simulation (utils/risk_calc.py).                          *)
(*                                                                         *)
(* A schedule table is [columns, rows]: columns is the set of per-year     *)
(* column names <<quantity, calendar_year>> the table has, rows the        *)
(* sequence of project rows.  A row carries its pandas index label, its    *)
(* start_year and contract_duration and one cell per quantity (the row     *)
(* holds the same cell in every year column).                              *)
(***************************************************************************)
SimQuantities == {"delivery_volume", "standard_deviation", "offered_volume"}

HorizonYears == FirstYear .. (FirstYear + MaxStartOffset + MaxDuration - 1)

\* The cell of a row in column <quantity>_<y>.
Cell(row, quantity, y) == row[quantity]

\* DataFrame.empty
IsEmpty(df) == df.rows = <<>>

\* line 201-203: the last calendar year of the horizon.
LastYear(df) ==
    SeqMax([i \in 1..Len(df.rows) |->
              df.rows[i].start_year + df.rows[i].contract_duration - 1])

\* line 203: the first calendar year of the horizon.
StartOfHorizon(df) == SeqMin([i \in 1..Len(df.rows) |-> df.rows[i].start_year])

\* ActiveFilter with the end of the contract span off by one (>= for >).
ActiveFilter_OffByOne(df, y) ==
    [i \in 1..Len(df.rows) |->
        /\ df.rows[i].start_year <= y
        /\ df.rows[i].start_year + df.rows[i].contract_duration >= y]

\* line 207: the boolean row filter of year y.
ActiveFilter(df, y) ==
    [i \in 1..Len(df.rows) |->
        /\ df.rows[i].start_year <= y
        /\ df.rows[i].start_year + df.rows[i].contract_duration > y]

\* line 207: active_projects_df, the rows the filter keeps.
ActiveRows(df, y) == SelectMask(df.rows, ActiveFilter(df, y))

\* line 216: yearly_portfolio_df.index.isin(active_projects_df.index)
ActiveProjectIndices(df, y) ==
    LET act == ActiveRows(df, y)
    IN  [i \in 1..Len(df.rows) |->
            \E k \in 1..Len(act) : act[k].index = df.rows[i].index]

\* lines 211-213: a year column of the active rows with missing cells as 0.
ColumnValues(df, quantity, y) ==
    LET act == ActiveRows(df, y)
    IN  [k \in 1..Len(act) |-> fillna0(Cell(act[k], quantity, y))]

\* line 217: matrix[mask, :][:, mask]
SubMatrix(m, mask) ==
    LET keptRows == SelectMask(m, mask)
    IN  [r \in 1..Len(keptRows) |-> SelectMask(keptRows[r], mask)]

\* line 220: np.linalg.cholesky reads the lower triangle and succeeds exactly when
\* the symmetric matrix it describes is positive definite (all leading minors > 0).
CholeskySucceeds(a) ==
    LET n == Len(a)
        low == [i \in 1..n |-> [j \in 1..n |-> IF i >= j THEN a[i][j] ELSE a[j][i]]]
        Leading(k) == [i \in 1..k |-> [j \in 1..k |-> low[i][j]]]
    IN  \A k \in 1..n : Det(Leading(k)) > 0

\* lines 211-223: the exception a year with active projects raises, or "none".
YearFailure(df, m, y) ==
    LET mask == ActiveProjectIndices(df, y)
        nrows == Len(m.val)
        ncols == IF nrows = 0 THEN 0 ELSE Len(m.val[1])
        sub == SubMatrix(m.val, mask)
    IN  IF <<"delivery_volume", y>> \notin df.columns THEN "KeyError"
        ELSE IF <<"standard_deviation", y>> \notin df.columns THEN "KeyError"
        ELSE IF <<"offered_volume", y>> \notin df.columns THEN "KeyError"
        ELSE IF nrows # Len(mask) \/ ncols # Len(mask) THEN "IndexError"
        ELSE IF ~m.numeric THEN "TypeError"
        ELSE IF ~CholeskySucceeds(sub) THEN "LinAlgError"
        ELSE IF Len(sub) # Len(ActiveRows(df, y)) THEN "ValueError"
        ELSE "none"

\* lines 223-229: the values np.std can return for the simulated portfolio totals.
\* It is 0 when every sigma is 0 or a single draw is made, and non-negative always.
SampleStd(sigmas, n) ==
    IF n = 1 \/ \A k \in 1..Len(sigmas) : sigmas[k] = 0 THEN {0} ELSE 0..MaxStd

\* YearResult with the delivery total taken from the mean delivery volumes.
YearResult_FromMeans(df, y, std_dev) ==
    LET overall_offered_volume == SumSeq(ColumnValues(df, "offered_volume", y))
        overall_portfolio_delivery ==
            SumSeq(ColumnValues(df, "delivery_volume", y)) - (2 * std_dev)
        overall_delivery_rate == FloatDiv(overall_portfolio_delivery, overall_offered_volume)
    IN  <<y, std_dev, overall_portfolio_delivery, overall_delivery_rate,
          overall_offered_volume>>

\* lines 231-242: the result tuple of a year, given the sample standard deviation.
YearResult(df, y, std_dev) ==
    LET overall_offered_volume == SumSeq(ColumnValues(df, "offered_volume", y))
        overall_portfolio_delivery == overall_offered_volume - (2 * std_dev)
        overall_delivery_rate == FloatDiv(overall_portfolio_delivery, overall_offered_volume)
    IN  <<y, std_dev, overall_portfolio_delivery, overall_delivery_rate,
          overall_offered_volume>>

\* The position of the global generator: the number of normals drawn since seeding.
GeneratorPosition(drawn) ==
    IF drawn = <<>> THEN 0 ELSE drawn[Len(drawn)].first + drawn[Len(drawn)].count

\* line 223: np.random.normal(size=(num_simulations, k)) takes the next
\* num_simulations * k normals of the global generator.
Draw(drawn, y, n, k) ==
    [year |-> y, first |-> GeneratorPosition(drawn), count |-> n * k]

\* lines 188-203: the argument checks and the loop set-up.
ArgumentError(df, m, n) ==
    IF IsEmpty(df) THEN "Input DataFrame cannot be empty"
    ELSE IF m.kind \notin {"list", "ndarray"}
        THEN "Project correlation matrix must be a list of lists or a numpy array"
    ELSE IF ~n.int \/ n.v <= 0 THEN "Number of simulations must be a positive integer"
    ELSE "none"

SimEnter ==
    /\ pc = "idle"
    /\ LET err == ArgumentError(yearly_portfolio_df, project_correlation_matrix,
                                num_simulations)
       IN  IF err # "none"
           THEN /\ pc' = "done"
                /\ outcome' = [kind |-> "raise", exc |-> "ValueError", msg |-> err]
                /\ UNCHANGED <<year, results>>
           ELSE /\ pc' = "loop"
                /\ results' = <<>>
                /\ year' = StartOfHorizon(yearly_portfolio_df)
                /\ UNCHANGED outcome
    /\ UNCHANGED <<file_path, draws, calls, portfolio_df, yearly_portfolio_df,
                   project_correlation_matrix, num_simulations, corrVars>>

\* A year loop that skips a year whose processing fails and goes on.
SimYear_SkipFailedYear ==
    /\ pc = "loop"
    /\ year <= LastYear(yearly_portfolio_df)
    /\ LET df == yearly_portfolio_df
           failure == YearFailure(df, project_correlation_matrix, year)
       IN  IF ActiveRows(df, year) = <<>> \/ failure # "none"
           THEN /\ year' = year + 1
                /\ UNCHANGED <<pc, results, outcome, draws>>
           ELSE \E std_dev \in SampleStd(ColumnValues(df, "standard_deviation", year),
                                         num_simulations.v) :
                /\ results' = Append(results, YearResult(df, year, std_dev))
                /\ draws' = Append(draws, Draw(draws, year, num_simulations.v,
                                               Len(ActiveRows(df, year))))
                /\ year' = year + 1
                /\ UNCHANGED <<pc, outcome>>
    /\ UNCHANGED <<file_path, calls, portfolio_df, yearly_portfolio_df,
                   project_correlation_matrix, num_simulations, corrVars>>

\* lines 205-242: one iteration of the year loop.
SimYear ==
    /\ pc = "loop"
    /\ year <= LastYear(yearly_portfolio_df)
    /\ LET df == yearly_portfolio_df
           failure == YearFailure(df, project_correlation_matrix, year)
       IN  IF ActiveRows(df, year) = <<>>
           THEN /\ year' = year + 1
                /\ UNCHANGED <<pc, results, outcome, draws>>
           ELSE IF failure # "none"
           THEN /\ pc' = "done"
                /\ outcome' = [kind |-> "raise", exc |-> failure, msg |-> "in year"]
                /\ UNCHANGED <<year, results, draws>>
           ELSE \E std_dev \in SampleStd(ColumnValues(df, "standard_deviation", year),
                                         num_simulations.v) :
                /\ results' = Append(results, YearResult(df, year, std_dev))
                /\ draws' = Append(draws, Draw(draws, year, num_simulations.v,
                                               Len(ActiveRows(df, year))))
                /\ year' = year + 1
                /\ UNCHANGED <<pc, outcome>>
    /\ UNCHANGED <<file_path, calls, portfolio_df, yearly_portfolio_df,
                   project_correlation_matrix, num_simulations, corrVars>>

\* line 244: return results
SimReturn ==
    /\ pc = "loop"
    /\ year > LastYear(yearly_portfolio_df)
    /\ pc' = "done"
    /\ outcome' = [kind |-> "return", value |-> results]
    /\ UNCHANGED <<file_path, draws, calls, portfolio_df, yearly_portfolio_df, simVars, corrVars>>

(***************************************************************************)
(* The inputs of the simulator model.                                      *)
(***************************************************************************)
AllYearColumns == SimQuantities \X HorizonYears

SimSpans ==
    [start_year : FirstYear .. (FirstYear + MaxStartOffset),
     contract_duration : 1..MaxDuration]

SimCells ==
    [delivery_volume : {Null, <<1>>},
     standard_deviation : {Null, <<0>>, <<1>>},
     offered_volume : {Null, <<0>>, <<2>>}]

\* Rows labelled 0..N-1 (the RangeIndex reset_index leaves), built from spans and cells.
MakeRows(spans, cells) ==
    [i \in 1..Len(spans) |->
        [index |-> i - 1,
         start_year |-> spans[i].start_year,
         contract_duration |-> spans[i].contract_duration,
         delivery_volume |-> cells[i].delivery_volume,
         standard_deviation |-> cells[i].standard_deviation,
         offered_volume |-> cells[i].offered_volume]]

PlainCell ==
    [delivery_volume |-> <<1>>, standard_deviation |-> <<1>>, offered_volume |-> <<2>>]

Identity(n) == [i \in 1..n |-> [j \in 1..n |-> IF i = j THEN 1 ELSE 0]]

NumericMatrix(val) == [kind |-> "ndarray", numeric |-> TRUE, val |-> val]

SimMatrices ==
    {NumericMatrix(v) :
        v \in UNION {[1..r -> [1..c -> {0, 1}]] : r \in 1..MaxProjects, c \in 1..MaxProjects}}
    \cup {[kind |-> "ndarray", numeric |-> FALSE, val |-> Identity(1)],
          [kind |-> "DataFrame", numeric |-> TRUE, val |-> Identity(1)]}

SimCounts ==
    {[int |-> TRUE, v |-> k] : k \in -1..MaxSimulations} \cup {[int |-> FALSE, v |-> 1]}

\* Schedules with every year column, a unit matrix and n = MaxSimulations;
\* spans and cells vary.
SimInputsCells ==
    {[df |-> [columns |-> AllYearColumns, rows |-> MakeRows(spans, cells)],
      m |-> NumericMatrix(Identity(Len(spans))),
      n |-> [int |-> TRUE, v |-> MaxSimulations]] :
        <<spans, cells>> \in
            UNION {[1..k -> SimSpans] \X [1..k -> SimCells] : k \in 1..MaxProjects}}

\* Schedules of plain rows (or no row); the matrix and n arguments vary.
SimInputsArguments ==
    {[df |-> [columns |-> AllYearColumns,
              rows |-> MakeRows(spans, [i \in 1..Len(spans) |-> PlainCell])],
      m |-> m, n |-> n] :
        <<spans, m, n>> \in
            (UNION {[1..k -> SimSpans] : k \in 0..MaxProjects}) \X SimMatrices \X SimCounts}

\* Schedules of plain rows that lack one year column.
SimInputsColumns ==
    {[df |-> [columns |-> AllYearColumns \ {c},
              rows |-> MakeRows(spans, [i \in 1..Len(spans) |-> PlainCell])],
      m |-> NumericMatrix(Identity(Len(spans))),
      n |-> [int |-> TRUE, v |-> MaxSimulations]] :
        <<spans, c>> \in
            (UNION {[1..k -> SimSpans] : k \in 1..MaxProjects}) \X AllYearColumns}

\* The one-project scenario: start 2020, two years, offered 100, mean delivery 90,
\* sigma 5, matrix [[1]]; with the 2020 columns only, or with every year column.
ScenarioRow ==
    [index |-> 0, start_year |-> FirstYear, contract_duration |-> 2,
     delivery_volume |-> <<90>>, standard_deviation |-> <<5>>, offered_volume |-> <<100>>]

SimInputsScenario ==
    {[df |-> [columns |-> cols, rows |-> <<ScenarioRow>>],
      m |-> NumericMatrix(Identity(1)),
      n |-> [int |-> TRUE, v |-> MaxSimulations]] :
        cols \in {SimQuantities \X {FirstYear}, AllYearColumns}}

\* The pandas index labels of a two-row schedule: the RangeIndex, other unique
\* labels, and a repeated label (as pd.concat of two tables leaves it).
SimLabels == {<<0, 1>>, <<3, 1>>, <<0, 0>>}

\* Two plain rows under each labelling, with every year column and a unit matrix.
SimInputsLabels ==
    {[df |-> [columns |-> AllYearColumns,
              rows |-> [i \in 1..2 |->
                          [MakeRows(spans, <<PlainCell, PlainCell>>)[i]
                              EXCEPT !.index = labels[i]]]],
      m |-> NumericMatrix(Identity(2)),
      n |-> [int |-> TRUE, v |-> MaxSimulations]] :
        <<spans, labels>> \in [1..2 -> SimSpans] \X SimLabels}

SimInputs ==
    SimInputsCells \cup SimInputsArguments \cup SimInputsColumns \cup SimInputsScenario
    \cup SimInputsLabels

InitSim ==
    /\ pc = "idle"
    /\ \E input \in SimInputs :
        /\ yearly_portfolio_df = input.df
        /\ project_correlation_matrix = input.m
        /\ num_simulations = input.n
    /\ year = 0
    /\ results = <<>>
    /\ outcome = [kind |-> "none"]
    /\ technology_correlation_matrix_df = [kind |-> "unused"]
    /\ country_correlation_matrix_df = [kind |-> "unused"]
    /\ returns = <<>>
    /\ calls = <<>>
    /\ draws = <<>>
    /\ file_path = [kind |-> "unused"]
    /\ portfolio_df = [kind |-> "unused"]

NextSim == SimEnter \/ SimYear \/ SimReturn

SpecSim == InitSim /\ [][NextSim]_vars

(***************************************************************************)
(* Properties of run_portfolio_simulation.                                 *)
(***************************************************************************)
\* A project row is active in year y when y lies in its contract span.
InSpan(row, y) == row.start_year <= y /\ y <= row.start_year + row.contract_duration - 1

\* The years of the horizon [min start .. max end] in which some project is active.
YearsWithActiveProject(df) ==
    {y \in StartOfHorizon(df)..LastYear(df) :
        \E i \in 1..Len(df.rows) : InSpan(df.rows[i], y)}

\* The simulator returned a result sequence to its caller.
Returned == pc = "done" /\ outcome.kind = "return"

\* C1: the years of the returned result sequence are exactly the years of the
\* horizon [min(start_year) .. max(start_year + contract_duration - 1)] that have at
\* least one active project, each once and in strictly ascending order; a year without
\* an active project has no row.
C1_ResultYears ==
    Returned =>
        LET value == outcome.value
            yrs == YearsWithActiveProject(yearly_portfolio_df)
        IN  /\ {value[i][1] : i \in 1..Len(value)} = yrs
            /\ Len(value) = Cardinality(yrs)
            /\ \A i \in 1..(Len(value) - 1) : value[i][1] < value[i + 1][1]

\* C1 witness: a returned sequence of at least two rows that is shorter than the
\* horizon because a year between two contracts has no active project.
C1_Witness ==
    /\ Returned
    /\ Len(outcome.value) >= 2
    /\ Len(outcome.value) <
         LastYear(yearly_portfolio_df) - StartOfHorizon(yearly_portfolio_df) + 1

\* The matrix argument is a square array of numbers.
IsSquareNumeric(m) ==
    /\ m.kind \in {"list", "ndarray"}
    /\ m.numeric
    /\ \A r \in 1..Len(m.val) : Len(m.val[r]) = Len(m.val)

\* The arguments violate a precondition of the simulator.
ViolatesPrecondition ==
    \/ IsEmpty(yearly_portfolio_df)
    \/ ~IsSquareNumeric(project_correlation_matrix)
    \/ ~(num_simulations.int /\ num_simulations.v > 0)

\* C2: whenever the schedule is empty, the matrix argument is not a square numeric
\* structure or n is not a positive integer, the call fails with InvalidInput
\* (ValueError) before any year is simulated and returns no result row.
C2_InvalidInputBeforeAnyYear ==
    ViolatesPrecondition =>
        /\ pc # "loop"
        /\ pc = "done" => (outcome.kind = "raise" /\ outcome.exc = "ValueError")

\* The total offered volume of the projects active in year y.
RECURSIVE OfferedUpTo(_, _, _)
OfferedUpTo(df, y, i) ==
    IF i = 0 THEN 0
    ELSE OfferedUpTo(df, y, i - 1)
         + (IF InSpan(df.rows[i], y) /\ df.rows[i].offered_volume # Null
            THEN df.rows[i].offered_volume[1] ELSE 0)

\* The total mean delivery volume of the projects active in year y.
RECURSIVE MeanUpTo(_, _, _)
MeanUpTo(df, y, i) ==
    IF i = 0 THEN 0
    ELSE MeanUpTo(df, y, i - 1)
         + (IF InSpan(df.rows[i], y) /\ df.rows[i].delivery_volume # Null
            THEN df.rows[i].delivery_volume[1] ELSE 0)

\* C3: every emitted row (y, std_dev, delivery_total, delivery_rate, offered_total)
\* has offered_total = the sum of the offered volumes of the projects active in y,
\* delivery_total = offered_total - 2 * std_dev and delivery_rate = delivery_total /
\* offered_total; the mean delivery volumes do not enter.
C3_RowArithmetic ==
    \A i \in 1..Len(results) :
        LET row == results[i]
            offered == OfferedUpTo(yearly_portfolio_df, row[1],
                                   Len(yearly_portfolio_df.rows))
        IN  /\ row[5] = offered
            /\ row[3] = offered - 2 * row[2]
            /\ offered # 0 =>
                 /\ row[4].kind = "num"
                 /\ row[4].q[2] > 0
                 /\ row[4].q[1] * offered = row[3] * row[4].q[2]

\* C3 witness: a row with a positive offered total and a positive standard deviation
\* whose total mean delivery volume differs from the offered total.
C3_Witness ==
    \E i \in 1..Len(results) :
        /\ results[i][5] > 0
        /\ results[i][2] > 0
        /\ MeanUpTo(yearly_portfolio_df, results[i][1], Len(yearly_portfolio_df.rows))
             # results[i][5]

\* C4: a year whose total offered volume is 0 is reported as an explicit failure; no
\* emitted row has a delivery_rate that is NaN or infinite.
C4_NoDegenerateRate ==
    \A i \in 1..Len(results) : results[i][4].kind = "num"

(***************************************************************************)
(* build_project_correlation_matrix (utils/risk_calc.py).                  *)
(*                                                                         *)
(* A category matrix table is [label_column, index, columns, val]:         *)
(* label_column says whether the labels are still the 'Unnamed: 0' column  *)
(* (as loaded) or have been promoted to the index; index and columns are   *)
(* the row and column labels; val maps <<row label, column label>> to a    *)
(* cell.  A correlation c is held as the integer c * CatScale.  A schedule *)
(* is [columns, rows] with rows of [project_name, technology, country].    *)
(* The eigen-repair is computed in exact rational arithmetic.              *)
(***************************************************************************)
\* Category correlations are multiples of 1 / CatScale.
CatScale == 2

\* raw + raw^T is held in units of 1 / SymScale.
SymScale == 2 * CatScale * CatScale

\* The diagonal jitter of line 169 and the diagonal tolerance, in units of 1e-8.
Jitter == 1

RAdd(x, y) == Frac(x[1] * y[2] + y[1] * x[2], x[2] * y[2])

Dot(u, v) == SumSeq([i \in 1..Len(u) |-> u[i] * v[i]])

RECURSIVE SeqGCD(_)
SeqGCD(v) == IF v = <<>> THEN 0 ELSE GCD(Abs(Head(v)), SeqGCD(Tail(v)))

\* The direction of an integer vector: the vector divided by the gcd of its entries.
\* It stands for the unit vector u / norm(u) of line 163.
Direction(u) == LET g == SeqGCD(u) IN [i \in 1..Len(u) |-> u[i] \div g]

IsZero(u) == \A i \in 1..Len(u) : u[i] = 0

\* lines 101-102, 115-116: set_index('project_name')[column].to_dict(); for a repeated
\* project_name the last row wins.
ToDict(df, column) ==
    [name \in {df.rows[i].project_name : i \in 1..Len(df.rows)} |->
        LET last == CHOOSE i \in 1..Len(df.rows) :
                        /\ df.rows[i].project_name = name
                        /\ \A j \in (i + 1)..Len(df.rows) : df.rows[j].project_name # name
        IN  df.rows[last][column]]

\* The distinct names in the reverse of their order of first appearance.
RECURSIVE UniqueNames_LastFirst(_, _)
UniqueNames_LastFirst(rows, seen) ==
    IF rows = <<>> THEN <<>>
    ELSE IF Head(rows).project_name \in seen THEN UniqueNames_LastFirst(Tail(rows), seen)
    ELSE UniqueNames_LastFirst(Tail(rows), seen \cup {Head(rows).project_name})
         \o <<Head(rows).project_name>>

\* line 119: yearly_portfolio_df['project_name'].unique(), in order of first appearance.
RECURSIVE UniqueNames(_, _)
UniqueNames(rows, seen) ==
    IF rows = <<>> THEN <<>>
    ELSE IF Head(rows).project_name \in seen THEN UniqueNames(Tail(rows), seen)
    ELSE <<Head(rows).project_name>>
         \o UniqueNames(Tail(rows), seen \cup {Head(rows).project_name})

\* A lookup that consults the row labels only.
MissingLabels_IndexOnly(dict, cat) ==
    {dict[name] : name \in DOMAIN dict} \ cat.index

\* lines 104, 107: a label the dict holds that is not both a row and a column label.
MissingLabels(dict, cat) ==
    {dict[name] : name \in DOMAIN dict} \ (cat.index \cap cat.columns)

\* line 111: DataFrame.isnull().any().any()
HasNaN(cat) == \E r \in cat.index, c \in cat.columns : cat.val[<<r, c>>] = Null

\* lines 124-141: the composed matrix, in units of 1 / CatScale^2.
RawMatrix(names, techOf, countryOf, tech, country) ==
    [p \in 1..Len(names) |-> [q \in 1..Len(names) |->
        tech.val[<<techOf[names[p]], techOf[names[q]]>>][1]
        * country.val[<<countryOf[names[p]], countryOf[names[q]]>>][1]]]

\* A symmetrization that doubles the entry instead of adding its mirror entry.
Symmetrize_NoTranspose(raw) ==
    [p \in 1..Len(raw) |-> [q \in 1..Len(raw) |-> raw[p][q] + raw[p][q]]]

\* line 148: (raw + raw^T) / 2, in units of 1 / SymScale.
Symmetrize(raw) ==
    [p \in 1..Len(raw) |-> [q \in 1..Len(raw) |-> raw[p][q] + raw[q][p]]]

MatVec(a, v) == [i \in 1..Len(a) |-> Dot(a[i], v)]

\* The candidate eigenvector directions: non-zero vectors over -1..1 whose first
\* non-zero entry is positive (an eigenvector is determined up to scale and sign).
EigGrid(n) ==
    {v \in [1..n -> -1..1] :
        \E i \in 1..n : v[i] = 1 /\ \A j \in 1..(i - 1) : v[j] = 0}

\* The position of a grid vector in the lexicographic order of the grid.
RECURSIVE GridRank(_)
GridRank(v) == IF v = <<>> THEN 0 ELSE (Head(v) + 1) + 3 * GridRank(Tail(v))

IsEigenvector(a, v) ==
    LET av == MatVec(a, v)
    IN  \A i, j \in 1..Len(v) : av[i] * v[j] = av[j] * v[i]

\* line 154: np.linalg.eig returns some basis of eigenvectors (the columns), in some
\* order; which basis it returns within an eigenspace is the library's choice.
\* The model lists the columns of a basis in grid order.
EigBases(a) ==
    LET n == Len(a)
        vecs == {v \in EigGrid(n) : IsEigenvector(a, v)}
    IN  {basis \in [1..n -> vecs] :
            /\ \A k \in 1..(n - 1) : GridRank(basis[k]) < GridRank(basis[k + 1])
            /\ Det(basis) # 0}

\* Some basis of grid eigenvectors exists.
HasEigenbasis(a) ==
    LET n == Len(a)
        vecs == {v \in EigGrid(n) : IsEigenvector(a, v)}
    IN  \E basis \in [1..n -> vecs] :
            /\ \A k \in 1..(n - 1) : GridRank(basis[k]) < GridRank(basis[k + 1])
            /\ Det(basis) # 0

\* line 154: the eigenvalue of eigenvector v, as a fraction in units of 1 / SymScale.
Eigenvalue(a, v) == Frac(Dot(v, MatVec(a, v)), Dot(v, v))

\* Clamp that leaves negative eigenvalues in place.
Clamp_Keep(lambda) == lambda

\* line 155: eigenvalues[eigenvalues < 0] = 0
Clamp(lambda) == IF lambda[1] < 0 THEN <<0, 1>> ELSE lambda

\* lines 158-163: classical Gram-Schmidt over the eigenvector columns in their order.
\* Column i becomes the direction of v_i minus its projections on the earlier columns;
\* a zero remainder divided by its zero norm gives a NaN column.
RECURSIVE GramSchmidt(_, _)
GramSchmidt(basis, done) ==
    IF Len(done) = Len(basis) THEN done
    ELSE LET v == basis[Len(done) + 1]
             n == Len(v)
             norms == [j \in 1..Len(done) |->
                         IF done[j].nan THEN 1 ELSE Dot(done[j].u, done[j].u)]
             RECURSIVE Prod(_)
             Prod(j) == IF j = 0 THEN 1 ELSE norms[j] * Prod(j - 1)
             all == Prod(Len(done))
             scaled == [i \in 1..n |->
                          all * v[i]
                          - SumSeq([j \in 1..Len(done) |->
                                (IF done[j].nan THEN 0
                                 ELSE Dot(done[j].u, v) * (all \div norms[j]) * done[j].u[i])])]
             poisoned == \E j \in 1..Len(done) : done[j].nan
             column == IF poisoned \/ IsZero(scaled)
                       THEN [nan |-> TRUE, u |-> v]
                       ELSE [nan |-> FALSE, u |-> Direction(scaled)]
         IN  GramSchmidt(basis, Append(done, column))

\* line 166: Q diag(eigenvalues) Q^T, each entry an exact fraction (or NaN).
Reconstruct(q, lambdas) ==
    LET n == Len(q)
        Term(k, i, j) ==
            Frac(lambdas[k][1] * q[k].u[i] * q[k].u[j],
                 lambdas[k][2] * Dot(q[k].u, q[k].u) * SymScale)
        RECURSIVE Sum(_, _, _)
        Sum(k, i, j) == IF k = 0 THEN <<0, 1>> ELSE RAdd(Sum(k - 1, i, j), Term(k, i, j))
    IN  [i \in 1..n |-> [j \in 1..n |->
            IF \E k \in 1..n : q[k].nan THEN [nan |-> TRUE, q |-> <<0, 1>>, e |-> 0]
            ELSE [nan |-> FALSE, q |-> Sum(n, i, j), e |-> 0]]]

\* line 169: += np.eye(n) * 1e-8.  An entry is q + e * 1e-8.
AddJitter(m) ==
    [i \in 1..Len(m) |-> [j \in 1..Len(m) |->
        IF i = j THEN [m[i][j] EXCEPT !.e = @ + Jitter] ELSE m[i][j]]]

\* lines 153-169: the repaired matrix for the eigenvector basis the library returned.
Repair(sym, basis) ==
    LET lambdas == [k \in 1..Len(basis) |-> Clamp(Eigenvalue(sym, basis[k]))]
    IN  AddJitter(Reconstruct(GramSchmidt(basis, <<>>), lambdas))

\* DataFrame.empty of a category table.
CatEmpty(cat) == cat.index = {} \/ (cat.columns = {} /\ ~cat.label_column)

\* lines 88-112: the ValueError the checks raise, or "none".  The checks of lines
\* 104-111 run on the tables after set_index.
BuildValueError(df, tech, country) ==
    IF IsEmpty(df) \/ CatEmpty(tech) \/ CatEmpty(country)
        THEN "Input DataFrames cannot be empty"
    ELSE IF ~({"project_name", "technology", "country"} \subseteq df.columns)
        THEN "Yearly portfolio DataFrame is missing required columns"
    ELSE IF ~tech.label_column \/ ~country.label_column THEN "none"
    ELSE IF MissingLabels(ToDict(df, "technology"), tech) # {}
        THEN "Technology not found in technology correlation matrix"
    ELSE IF MissingLabels(ToDict(df, "country"), country) # {}
        THEN "Country not found in country correlation matrix"
    ELSE IF HasNaN(tech) \/ HasNaN(country)
        THEN "Correlation matrices cannot contain NaN values"
    ELSE "none"

\* A promotion that also discards the row labels.
SetIndex_DropLabels(cat) == [cat EXCEPT !.label_column = FALSE, !.index = {}]

\* lines 97-98: set_index('Unnamed: 0', inplace=True) on a caller's table.
SetIndex(cat) == [cat EXCEPT !.label_column = FALSE]

\* lines 86-112, 173-178: a call that fails a check logs it and returns None.  The
\* tables keep the promoted index when the failing check comes after set_index.
BuildReturnsNone ==
    /\ Len(returns) < MaxCalls
    /\ LET err == BuildValueError(yearly_portfolio_df, technology_correlation_matrix_df,
                                  country_correlation_matrix_df)
           promoted == err \notin {"Input DataFrames cannot be empty",
                                   "Yearly portfolio DataFrame is missing required columns"}
       IN  /\ err # "none"
           /\ outcome' = [kind |-> "None", msg |-> err]
           /\ technology_correlation_matrix_df' =
                IF promoted THEN SetIndex(technology_correlation_matrix_df)
                ELSE technology_correlation_matrix_df
           /\ country_correlation_matrix_df' =
                IF promoted THEN SetIndex(country_correlation_matrix_df)
                ELSE country_correlation_matrix_df
    /\ returns' = Append(returns, outcome')
    /\ UNCHANGED <<file_path, draws, calls, portfolio_df, pc, yearly_portfolio_df, simVars>>

\* lines 97-98, 179-184: set_index on a table without the 'Unnamed: 0' column raises
\* KeyError, which is logged and re-raised; the technology table is promoted first.
BuildRaisesKeyError ==
    /\ Len(returns) < MaxCalls
    /\ BuildValueError(yearly_portfolio_df, technology_correlation_matrix_df,
                       country_correlation_matrix_df) = "none"
    /\ ~technology_correlation_matrix_df.label_column
         \/ ~country_correlation_matrix_df.label_column
    /\ outcome' = [kind |-> "raise", exc |-> "KeyError",
                   msg |-> "None of ['Unnamed: 0'] are in the columns"]
    /\ technology_correlation_matrix_df' = SetIndex(technology_correlation_matrix_df)
    /\ returns' = Append(returns, outcome')
    /\ UNCHANGED <<file_path, draws, calls, portfolio_df, pc, yearly_portfolio_df,
                   country_correlation_matrix_df, simVars>>

\* lines 114-151: the symmetrized matrix of the unique project names, in units of
\* 1 / SymScale.
SymOf(df, tech, country) ==
    Symmetrize(RawMatrix(UniqueNames(df.rows, {}), ToDict(df, "technology"),
                         ToDict(df, "country"), tech, country))

\* lines 86-171: a call that passes every check returns the repaired matrix.
BuildReturnsMatrix ==
    /\ Len(returns) < MaxCalls
    /\ BuildValueError(yearly_portfolio_df, technology_correlation_matrix_df,
                       country_correlation_matrix_df) = "none"
    /\ technology_correlation_matrix_df.label_column
    /\ country_correlation_matrix_df.label_column
    /\ \E sym \in {SymOf(yearly_portfolio_df, technology_correlation_matrix_df,
                         country_correlation_matrix_df)} :
         \E basis \in EigBases(sym) :
            outcome' = [kind |-> "return", value |-> Repair(sym, basis)]
    /\ technology_correlation_matrix_df' = SetIndex(technology_correlation_matrix_df)
    /\ country_correlation_matrix_df' = SetIndex(country_correlation_matrix_df)
    /\ returns' = Append(returns, outcome')
    /\ UNCHANGED <<file_path, draws, calls, portfolio_df, pc, yearly_portfolio_df, simVars>>

(***************************************************************************)
(* The inputs of the matrix builder model.                                 *)
(***************************************************************************)
Technologies == <<"A", "B", "C">>

Countries == <<"X", "Y">>

ProjectNames == <<"P1", "P2", "P3", "P4">>

\* The correlations -1, 0, 1/CatScale and 1.
CatValues == {-CatScale, 0, 1, CatScale}

Range(seq) == {seq[i] : i \in 1..Len(seq)}

Pairs(n) == {pr \in (1..n) \X (1..n) : pr[1] < pr[2]}

\* A loaded category table over the labels: unit diagonal, the off-diagonal
\* correlation of labels i < j given by off, symmetric.
SymmetricTable(labels, off) ==
    [label_column |-> TRUE,
     index |-> Range(labels),
     columns |-> Range(labels),
     val |-> [rc \in Range(labels) \X Range(labels) |->
                LET i == CHOOSE k \in 1..Len(labels) : labels[k] = rc[1]
                    j == CHOOSE k \in 1..Len(labels) : labels[k] = rc[2]
                IN  IF i = j THEN <<CatScale>>
                    ELSE IF i < j THEN <<off[<<i, j>>]>> ELSE <<off[<<j, i>>]>>]]

ValidTables(labels) ==
    {SymmetricTable(labels, off) : off \in [Pairs(Len(labels)) -> CatValues]}

\* A schedule with the required columns whose i-th row is project spec[i].
BuildSchedule(names, spec) ==
    [columns |-> {"project_name", "technology", "country"},
     rows |-> [i \in 1..Len(spec) |->
                 [project_name |-> names[i],
                  technology |-> spec[i][1],
                  country |-> spec[i][2]]]]

\* Schedules of up to MaxCorrProjects projects, the i-th of technology techs[i], in
\* any countries.
ProjectSpecs(techs) ==
    UNION {{spec \in [1..k -> Range(techs) \X Range(Countries)] :
               \A i \in 1..k : spec[i][1] = techs[i]} : k \in 1..MaxCorrProjects}

\* Valid inputs: schedules of distinctly named projects and valid category tables,
\* kept when the symmetrized matrix has an eigenvector basis on the grid.  The
\* projects have pairwise different technologies, or all the same one.
CorrInputsValid ==
    {in \in
        {[df |-> BuildSchedule(ProjectNames, spec), tech |-> t, country |-> c] :
            <<spec, t, c>> \in
                (ProjectSpecs(Technologies) \X ValidTables(Technologies)
                     \X ValidTables(Countries))
                \cup (ProjectSpecs(<<"A", "A", "A", "A">>)
                         \X {SymmetricTable(Technologies, [pr \in Pairs(3) |-> 0])}
                         \X ValidTables(Countries))} :
        \E sym \in {SymOf(in.df, in.tech, in.country)} : HasEigenbasis(sym)}

\* A valid table damaged in one way: "indexed" (labels already promoted), "row" /
\* "column" (the last label missing from the index / the columns), "nan" (a missing
\* cell), "empty" (no rows); "ok" leaves it whole.
Damage(cat, labels, how) ==
    LET last == labels[Len(labels)]
    IN  CASE how = "indexed" -> [cat EXCEPT !.label_column = FALSE]
          [] how = "row" -> [cat EXCEPT !.index = @ \ {last}]
          [] how = "column" -> [cat EXCEPT !.columns = @ \ {last}]
          [] how = "nan" -> [cat EXCEPT !.val[<<labels[1], last>>] = Null]
          [] how = "empty" -> [cat EXCEPT !.index = {}]
          [] OTHER -> cat

HalfTable(labels) == SymmetricTable(labels, [pr \in Pairs(Len(labels)) |-> 1])

\* Schedules of at most two projects, distinctly named or all named alike, with an
\* empty schedule and schedules lacking a required column.
FaultySchedules ==
    LET specs == UNION {[1..k -> {"A", "C"} \X Range(Countries)] : k \in 1..2}
        alike == [i \in 1..4 |-> ProjectNames[1]]
        whole == {BuildSchedule(names, spec) : names \in {ProjectNames, alike}, spec \in specs}
        one == BuildSchedule(ProjectNames, <<<<"A", "X">>>>)
    IN  whole \cup {[one EXCEPT !.rows = <<>>],
                    [one EXCEPT !.columns = @ \ {"country"}],
                    [one EXCEPT !.columns = @ \ {"technology"}]}

\* Inputs that may break a precondition of the builder.
CorrInputsFaulty ==
    {[df |-> df,
      tech |-> Damage(HalfTable(Technologies), Technologies, ht),
      country |-> Damage(HalfTable(Countries), Countries, hc)] :
        <<df, ht, hc>> \in
            FaultySchedules
            \X {"ok", "indexed", "row", "column", "nan", "empty"}
            \X {"ok", "indexed", "row", "nan", "empty"}}

\* Two projects of technologies A and B with a technology table that is not
\* symmetric in (A, B): the loader does not check symmetry.
CorrInputsAsymmetric ==
    {[df |-> BuildSchedule(ProjectNames, spec),
      tech |-> [HalfTable(Technologies) EXCEPT !.val[<<"A", "B">>] = <<v>>],
      country |-> HalfTable(Countries)] :
        <<spec, v>> \in
            {sp \in [1..2 -> Range(Technologies) \X Range(Countries)] :
                sp[1][1] = "A" /\ sp[2][1] = "B"}
            \X (CatValues \ {1})}

CorrInputs == CorrInputsValid \cup CorrInputsFaulty \cup CorrInputsAsymmetric

InitCorr ==
    /\ pc = "idle"
    /\ \E in \in CorrInputs :
        /\ yearly_portfolio_df = in.df
        /\ technology_correlation_matrix_df = in.tech
        /\ country_correlation_matrix_df = in.country
    /\ project_correlation_matrix = [kind |-> "unused"]
    /\ num_simulations = [int |-> TRUE, v |-> 1]
    /\ year = 0
    /\ results = <<>>
    /\ outcome = [kind |-> "none"]
    /\ returns = <<>>
    /\ calls = <<>>
    /\ draws = <<>>
    /\ file_path = [kind |-> "unused"]
    /\ portfolio_df = [kind |-> "unused"]

NextCorr == BuildReturnsNone \/ BuildRaisesKeyError \/ BuildReturnsMatrix

SpecCorr == InitCorr /\ [][NextCorr]_vars

(***************************************************************************)
(* validate_project_correlation_matrix (utils/validation.py) on a matrix   *)
(* of entries q + e * 1e-8.                                                *)
(***************************************************************************)
LCM(a, b) == (a * b) \div GCD(a, b)

RECURSIVE SeqLCM(_)
SeqLCM(v) == IF v = <<>> THEN 1 ELSE LCM(Head(v), SeqLCM(Tail(v)))

\* The rational parts of a matrix times their common denominator: an integer matrix
\* with the same signs of minors and eigenvalues.
IntegerPart(m) ==
    LET n == Len(m)
        common == SeqLCM([k \in 1..(n * n) |->
                            m[((k - 1) \div n) + 1][((k - 1) % n) + 1].q[2]])
    IN  [i \in 1..n |-> [j \in 1..n |-> m[i][j].q[1] * (common \div m[i][j].q[2])]]

\* The principal submatrix of a on the index set keep.
Principal(a, keep) ==
    LET mask == [i \in 1..Len(a) |-> i \in keep] IN SubMatrix(a, mask)

\* A symmetric matrix has no negative eigenvalue exactly when every principal minor
\* is non-negative.
IsPSD(a) == \A keep \in SUBSET (1..Len(a)) : Det(Principal(a, keep)) >= 0

\* A closeness test that accepts any two numbers.
AllClose_Always(x, y) == ~x.nan /\ ~y.nan

\* line 53: np.allclose(a, b) on two entries.  Different rational parts of the model
\* differ by far more than the tolerance; equal ones are compared in units of 1e-8
\* (atol is 1e-8); a NaN is close to nothing.
AllClose(x, y) == ~x.nan /\ ~y.nan /\ x.q = y.q /\ Abs(x.e - y.e) <= 1

\* line 63-64: np.all(np.linalg.eigvals(m) >= 0).  The jitter on the diagonal lifts
\* every eigenvalue of the rational part by the smallest diagonal e * 1e-8; a negative
\* eigenvalue of the rational part is below that.
EigvalsNonNegative(m) ==
    /\ IsPSD(IntegerPart(m))
    /\ \A i \in 1..Len(m) : m[i][i].e >= 0

\* lines 47-68: numeric dtype, symmetry, NaN and eigenvalue checks, in that order.
validate_project_correlation_matrix(m) ==
    IF \E i, j \in 1..Len(m) : ~AllClose(m[i][j], m[j][i]) THEN FALSE
    ELSE IF \E i, j \in 1..Len(m) : m[i][j].nan THEN FALSE
    ELSE EigvalsNonNegative(m)

(***************************************************************************)
(* Properties of build_project_correlation_matrix.                         *)
(***************************************************************************)
\* The matrix the k-th call returned, when it returned one.
ReturnedMatrix(k) == k <= Len(returns) /\ returns[k].kind = "return"

\* The symmetrized matrix of the current inputs, as integers.
CurrentSym ==
    SymOf(yearly_portfolio_df, technology_correlation_matrix_df,
          country_correlation_matrix_df)

\* C5: for every schedule and pair of valid category matrices the builder accepts,
\* the returned matrix is symmetric, contains no NaN and has all eigenvalues >= 0, so
\* validate_project_correlation_matrix returns True on it.
C5_ReturnedMatrixValidates ==
    ReturnedMatrix(1) =>
        LET m == returns[1].value
        IN  /\ \A i, j \in 1..Len(m) : m[i][j].q = m[j][i].q /\ m[i][j].e = m[j][i].e
            /\ \A i, j \in 1..Len(m) : ~m[i][j].nan
            /\ IsPSD(IntegerPart(m))
            /\ validate_project_correlation_matrix(m)

\* C5 witness: a matrix was returned for three projects whose symmetrized matrix had
\* a negative eigenvalue, so the clamp acted.
C5_Witness ==
    /\ ReturnedMatrix(1)
    /\ Len(returns[1].value) = 3
    /\ ~IsPSD(CurrentSym)

\* C6: the diagonal of the repaired matrix is forced to exactly 1 before the 1e-8
\* jitter is added, so every diagonal entry of the returned matrix is within 1e-6 of
\* 1, whether or not negative eigenvalues were clamped.
C6_UnitDiagonal ==
    ReturnedMatrix(1) =>
        \A i \in 1..Len(returns[1].value) :
            /\ returns[1].value[i][i].q = <<1, 1>>
            /\ Abs(returns[1].value[i][i].e) <= 100

\* C7: calling the builder twice in succession with the same schedule and the same
\* two category matrix inputs returns the same matrix the second time as the first.
C7_SecondCallSameMatrix ==
    (ReturnedMatrix(1) /\ Len(returns) >= 2) => returns[2] = returns[1]

\* Some project row names a technology or country that is not both a row label and
\* a column label of its category matrix.
SomeProjectUnknown ==
    \E i \in 1..Len(yearly_portfolio_df.rows) :
        \/ yearly_portfolio_df.rows[i].technology
             \notin (technology_correlation_matrix_df.index
                     \cap technology_correlation_matrix_df.columns)
        \/ yearly_portfolio_df.rows[i].country
             \notin (country_correlation_matrix_df.index
                     \cap country_correlation_matrix_df.columns)

\* The failure the first failing precondition of the current inputs reports.
ExpectedFailure ==
    IF \/ IsEmpty(yearly_portfolio_df)
       \/ CatEmpty(technology_correlation_matrix_df)
       \/ CatEmpty(country_correlation_matrix_df)
        THEN "Input DataFrames cannot be empty"
    ELSE IF ~({"project_name", "technology", "country"} \subseteq yearly_portfolio_df.columns)
        THEN "Yearly portfolio DataFrame is missing required columns"
    ELSE IF SomeProjectUnknown
        THEN "label not found"
    ELSE IF HasNaN(technology_correlation_matrix_df) \/ HasNaN(country_correlation_matrix_df)
        THEN "Correlation matrices cannot contain NaN values"
    ELSE "none"

\* The schedule's project_name values are unique, as the project record requires.
UniqueProjectNames ==
    \A i, j \in 1..Len(yearly_portfolio_df.rows) :
        i # j => yearly_portfolio_df.rows[i].project_name
                   # yearly_portfolio_df.rows[j].project_name

required_columns ==
    {"project_id", "project_name", "contract_duration", "country", "technology",
     "counterparty", "start_year", "screening_date", "overall_project_rating"}

\* line 59
variable_order ==
    <<"offered_volume", "standard_deviation", "delivery_volume",
      "expected_value_percentage">>

\* The decreasing sequence of a finite set of integers.
RECURSIVE SortedSeq_Descending(_)
SortedSeq_Descending(S) ==
    IF S = {} THEN <<>>
    ELSE LET greatest == CHOOSE x \in S : \A y \in S : x >= y
         IN  <<greatest>> \o SortedSeq_Descending(S \ {greatest})

\* line 59: sorted(...), the increasing sequence of a finite set of integers.
RECURSIVE SortedSeq(_)
SortedSeq(S) ==
    IF S = {} THEN <<>>
    ELSE LET least == CHOOSE x \in S : \A y \in S : x <= y
         IN  <<least>> \o SortedSeq(S \ {least})

\* line 22: DataFrame.empty, no row or no column.
PortfolioEmpty(df) ==
    df.rows = <<>> \/ (df.id_columns = {} /\ df.value_columns = {})

\* lines 22-28: the argument checks.
CreateArgumentError(df) ==
    IF PortfolioEmpty(df) THEN "Input DataFrame is empty"
    ELSE IF ~(required_columns \subseteq df.id_columns)
        THEN "Input DataFrame is missing required columns"
    ELSE "none"

\* lines 31-32: pd.melt, one long row per input row and value column.
Melt(df) ==
    {[row |-> i, id |-> df.rows[i].id, variable |-> c, value |-> df.rows[i].val[c]] :
        i \in 1..Len(df.rows), c \in df.value_columns}

\* A year index pattern that needs the index to be at least 2.
YearIndex_FromTwo(c) == IF c.year_n < 2 THEN Null ELSE <<c.year_n>>

\* line 35: str.extract(r'year_(\d+)')
YearIndex(c) == IF c.year_n = 0 THEN Null ELSE <<c.year_n>>

\* lines 49-50: str.extract(r'project_(.+)_year'), then fillna('offered_volume').
Variable(c) == IF c.project THEN c.quantity ELSE "offered_volume"

\* lines 35-50: the long rows that have a year index and a value, with their
\* calendar year and variable name.
LongForm(df) ==
    {[row |-> r.row, id |-> r.id, variable |-> Variable(r.variable),
      calendar_year |-> r.id.start_year + YearIndex(r.variable)[1] - 1,
      value |-> r.value] :
        r \in {m \in Melt(df) : YearIndex(m.variable) # Null /\ m.value # Null}}

\* lines 53-54: pivot raises ValueError when two long rows share index and columns.
PivotDuplicates(long) ==
    \E a, b \in long :
        /\ a # b
        /\ a.id = b.id
        /\ a.variable = b.variable
        /\ a.calendar_year = b.calendar_year

\* The order of the pivot index: by project_id, then contract_duration, then
\* start_year (project_name follows project_id in the model).
IdBefore(a, b) ==
    \/ a.project_id < b.project_id
    \/ a.project_id = b.project_id /\ a.contract_duration < b.contract_duration
    \/ /\ a.project_id = b.project_id
       /\ a.contract_duration = b.contract_duration
       /\ a.start_year <= b.start_year

RECURSIVE SortedIds(_)
SortedIds(S) ==
    IF S = {} THEN <<>>
    ELSE LET first == CHOOSE x \in S : \A y \in S : IdBefore(x, y)
         IN  <<first>> \o SortedIds(S \ {first})

\* line 60: the identity columns at the head of ordered_columns.
identity_order ==
    <<"project_id", "project_name", "contract_duration", "country", "technology",
      "counterparty", "start_year", "screening_date", "overall_project_rating">>

\* lines 60-62: the column labels of the returned table from left to right.  A label
\* is [name, year]: year is Null for ('name', '') and <<y>> for ('name', y), which
\* line 62 writes as name and name_y.
ColumnOrder(ordered_columns) ==
    [k \in 1..Len(identity_order) |-> [name |-> identity_order[k], year |-> Null]]
    \o [k \in 1..Len(ordered_columns) |->
           [name |-> ordered_columns[k][1], year |-> <<ordered_columns[k][2]>>]]

\* lines 53-55: the pivoted cell of an identity, a variable and a calendar year.
PivotCell(long, id, variable, y) ==
    IF \E r \in long : r.id = id /\ r.variable = variable /\ r.calendar_year = y
    THEN (CHOOSE r \in long :
            r.id = id /\ r.variable = variable /\ r.calendar_year = y).value
    ELSE Null

\* lines 53-62: pivot, reset_index and reindex on the ordered columns: one row per
\* identity of the long form; every variable of variable_order for every calendar
\* year present.
PivotTable(long) ==
    LET ids == SortedIds({r.id : r \in long})
        calendar_years == SortedSeq({r.calendar_year : r \in long})
        ordered_columns ==
            [k \in 1..(Len(variable_order) * Len(calendar_years)) |->
                <<variable_order[((k - 1) \div Len(calendar_years)) + 1],
                  calendar_years[((k - 1) % Len(calendar_years)) + 1]>>]
    IN  [id_columns |-> required_columns,
         columns |-> ordered_columns,
         column_order |-> ColumnOrder(ordered_columns),
         rows |-> [i \in 1..Len(ids) |->
                     [id |-> ids[i],
                      val |-> [c \in Range(ordered_columns) |->
                                  PivotCell(long, ids[i], c[1], c[2])]]]]

\* lines 20-28, 53, 65-68: a ValueError is logged and None is returned.
CreateValueError(df) ==
    IF CreateArgumentError(df) # "none" THEN CreateArgumentError(df)
    ELSE IF PivotDuplicates(LongForm(df))
        THEN "Index contains duplicate entries, cannot reshape"
    ELSE "none"

CreateReturnsNone ==
    /\ outcome.kind = "none"
    /\ CreateValueError(portfolio_df) # "none"
    /\ outcome' = [kind |-> "None", msg |-> CreateValueError(portfolio_df)]
    /\ UNCHANGED <<file_path, draws, calls, pc, yearly_portfolio_df, simVars, corrVars,
                   portfolio_df>>

\* lines 20-63: the yearly table is returned.
CreateReturnsTable ==
    /\ outcome.kind = "none"
    /\ CreateValueError(portfolio_df) = "none"
    /\ outcome' = [kind |-> "return", value |-> PivotTable(LongForm(portfolio_df))]
    /\ UNCHANGED <<file_path, draws, calls, pc, yearly_portfolio_df, simVars, corrVars,
                   portfolio_df>>

(***************************************************************************)
(* The inputs of the schedule builder model.                               *)
(***************************************************************************)
OfferedYear(n) == [project |-> FALSE, quantity |-> "offered_volume", year_n |-> n]

ProjectDeliveryYear(n) == [project |-> TRUE, quantity |-> "delivery_volume", year_n |-> n]

\* A column that is no per-year column.
NotesColumn == [project |-> FALSE, quantity |-> "notes", year_n |-> 0]

PortfolioValueColumns ==
    {OfferedYear(n) : n \in 1..MaxYearIndex} \cup {ProjectDeliveryYear(1), NotesColumn}

PortfolioIds ==
    {[project_id |-> k, project_name |-> ProjectNames[k], start_year |-> FirstYear + o,
      contract_duration |-> d] :
        k \in 1..MaxRows, o \in 0..MaxScheduleOffset, d \in 1..MaxYearIndex}

PortfolioCells ==
    {val \in [PortfolioValueColumns -> {Null, <<7>>}] : val[NotesColumn] = <<7>>}

PortfolioRows == [id : PortfolioIds, val : PortfolioCells]

\* Tables with every required column, with at least one long row left to pivot.
PortfolioTables ==
    {df \in [id_columns : {required_columns},
             value_columns : {PortfolioValueColumns},
             rows : UNION {[1..k -> PortfolioRows] : k \in 1..MaxRows}] :
        LongForm(df) # {}}

\* Per-year columns named without the "project_" prefix: delivery_volume_year_<n>,
\* and year_<n> with no quantity at all.
DeliveryYear(n) == [project |-> FALSE, quantity |-> "delivery_volume", year_n |-> n]

BareYear(n) == [project |-> FALSE, quantity |-> "", year_n |-> n]

PortfolioUnprefixedColumns ==
    {OfferedYear(1), DeliveryYear(1), ProjectDeliveryYear(1), BareYear(MaxYearIndex)}

\* One-project tables over these columns, with at least one long row left to pivot.
PortfolioUnprefixed ==
    {df \in [id_columns : {required_columns},
             value_columns : {PortfolioUnprefixedColumns},
             rows : [1..1 -> [id : {i \in PortfolioIds : i.project_id = 1},
                              val : [PortfolioUnprefixedColumns -> {Null, <<7>>}]]]] :
        LongForm(df) # {}}

\* Empty tables and tables that lack required columns.
PortfolioMalformed ==
    {[id_columns |-> {}, value_columns |-> {}, rows |-> <<>>],
     [id_columns |-> required_columns, value_columns |-> PortfolioValueColumns,
      rows |-> <<>>]}
    \cup [id_columns : {{"project_id", "project_name"},
                        required_columns \ {"start_year"},
                        required_columns \ {"screening_date"}},
          value_columns : {{}, PortfolioValueColumns},
          rows : [1..1 -> {r \in PortfolioRows : r.id.project_id = 1}]]

InitSchedule ==
    /\ pc = "idle"
    /\ portfolio_df \in PortfolioTables \cup PortfolioMalformed \cup PortfolioUnprefixed
    /\ yearly_portfolio_df = [kind |-> "unused"]
    /\ project_correlation_matrix = [kind |-> "unused"]
    /\ num_simulations = [int |-> TRUE, v |-> 1]
    /\ year = 0
    /\ results = <<>>
    /\ outcome = [kind |-> "none"]
    /\ technology_correlation_matrix_df = [kind |-> "unused"]
    /\ country_correlation_matrix_df = [kind |-> "unused"]
    /\ returns = <<>>
    /\ calls = <<>>
    /\ draws = <<>>
    /\ file_path = [kind |-> "unused"]

NextSchedule == CreateReturnsNone \/ CreateReturnsTable

SpecSchedule == InitSchedule /\ [][NextSchedule]_vars

(***************************************************************************)
(* Properties of create_yearly_portfolio.                                  *)
(***************************************************************************)
\* The matrix builder's inputs are malformed: a table is empty or the schedule lacks
\* a required column.
BuildInputsMalformed ==
    \/ IsEmpty(yearly_portfolio_df)
    \/ CatEmpty(technology_correlation_matrix_df)
    \/ CatEmpty(country_correlation_matrix_df)
    \/ ~({"project_name", "technology", "country"} \subseteq yearly_portfolio_df.columns)

\* C9: on malformed input (empty table or missing required column)
\* create_yearly_portfolio and build_project_correlation_matrix fail with an error
\* delivered to the caller; neither returns a value (empty, partial or sentinel).
C9_MalformedInputRaises ==
    /\ (outcome.kind # "none" /\ portfolio_df # [kind |-> "unused"]
        /\ CreateArgumentError(portfolio_df) # "none")
          => outcome.kind = "raise"
    /\ (Len(returns) = 1 /\ BuildInputsMalformed) => returns[1].kind = "raise"

\* The project table is valid: every required column, unique project_id and
\* project_name, an offered volume for every year index 1..contract_duration, and
\* per-year columns named offered_volume_year_<n> or project_<quantity>_year_<n>.
ValidProjectTable ==
    /\ CreateArgumentError(portfolio_df) = "none"
    /\ \A c \in portfolio_df.value_columns :
          c.year_n # 0 => (c.project <=> c.quantity # "offered_volume")
    /\ \A i, j \in 1..Len(portfolio_df.rows) :
          i # j => /\ portfolio_df.rows[i].id.project_id # portfolio_df.rows[j].id.project_id
                   /\ portfolio_df.rows[i].id.project_name
                        # portfolio_df.rows[j].id.project_name
    /\ \A i \in 1..Len(portfolio_df.rows) :
          \A n \in 1..portfolio_df.rows[i].id.contract_duration :
              /\ OfferedYear(n) \in portfolio_df.value_columns
              /\ portfolio_df.rows[i].val[OfferedYear(n)] # Null

\* C10: for every valid project table, the table create_yearly_portfolio returns has
\* exactly one row per distinct project identity of the input: no project lost, none
\* duplicated.
C10_OneRowPerProject ==
    (outcome.kind # "none" /\ portfolio_df # [kind |-> "unused"] /\ ValidProjectTable) =>
        /\ outcome.kind = "return"
        /\ \A i \in 1..Len(portfolio_df.rows) :
              Cardinality({k \in 1..Len(outcome.value.rows) :
                             outcome.value.rows[k].id = portfolio_df.rows[i].id}) = 1
        /\ \A k \in 1..Len(outcome.value.rows) :
              \E i \in 1..Len(portfolio_df.rows) :
                  outcome.value.rows[k].id = portfolio_df.rows[i].id

\* C10 witness: a valid table of two projects with different spans was converted,
\* one of them with a missing value beyond its offered volumes.
C10_Witness ==
    /\ portfolio_df # [kind |-> "unused"]
    /\ ValidProjectTable
    /\ outcome.kind = "return"
    /\ Len(portfolio_df.rows) = 2
    /\ portfolio_df.rows[1].id.start_year # portfolio_df.rows[2].id.start_year
    /\ portfolio_df.rows[1].id.contract_duration = 1
    /\ portfolio_df.rows[1].val[ProjectDeliveryYear(1)] = Null
    /\ Len(outcome.value.rows) = 2

\* The schedule builder returned a table.
ScheduleReturned == portfolio_df # [kind |-> "unused"] /\ outcome.kind = "return"

\* C11: in the returned table every calendar-year field a project carries lies in
\* [start_year, start_year + contract_duration - 1] of that project: a non-missing
\* input value at a year index above contract_duration produces no field outside it.
C11_FieldsWithinSpan ==
    ScheduleReturned =>
        \A k \in 1..Len(outcome.value.rows) :
            \A c \in Range(outcome.value.columns) :
                outcome.value.rows[k].val[c] # Null =>
                    /\ c[2] >= outcome.value.rows[k].id.start_year
                    /\ c[2] <= outcome.value.rows[k].id.start_year
                                 + outcome.value.rows[k].id.contract_duration - 1

\* The input holds a non-missing value for the quantity and calendar year.
InputHolds(quantity, y) ==
    \E i \in 1..Len(portfolio_df.rows) :
        \E c \in portfolio_df.value_columns :
            /\ YearIndex(c) # Null
            /\ Variable(c) = quantity
            /\ portfolio_df.rows[i].id.start_year + YearIndex(c)[1] - 1 = y
            /\ portfolio_df.rows[i].val[c] # Null

\* C12: the returned table contains a column <quantity>_<year> only if the input
\* holds at least one non-missing value for that quantity and calendar year.
C12_OnlyColumnsOfData ==
    ScheduleReturned =>
        \A c \in Range(outcome.value.columns) : InputHolds(c[1], c[2])

(***************************************************************************)
(* The validators (utils/validation.py).  A call delivers                  *)
(* [kind |-> "return", value |-> TRUE or FALSE] or raises.                 *)
(***************************************************************************)
\* The value None.
None == [kind |-> "None"]

Returns(value) == [kind |-> "return", value |-> value]

Raises(exc) == [kind |-> "raise", exc |-> exc]

\* The non-identity columns of a schedule that do not end in "_<integer>".
UnparsedColumns(df) == IF "other_columns" \in DOMAIN df THEN df.other_columns ELSE {}

\* validation.py line 29: int(col.split('_')[-1]) of every non-identity column.
CalendarYearSuffixes(df) == {df.columns[k][2] : k \in 1..Len(df.columns)}

\* A duplicate test that looks at no row.
DuplicatedProjectIds_Never(df) == FALSE

\* validation.py line 24: yearly_portfolio_df['project_id'].duplicated().any()
DuplicatedProjectIds(df) ==
    \E i, j \in 1..Len(df.rows) :
        i # j /\ df.rows[i].id.project_id = df.rows[j].id.project_id

\* validation.py lines 4-34.  None has no attribute 'empty'; int() of a suffix that
\* is no integer raises ValueError.
validate_yearly_portfolio(df) ==
    IF df = None THEN Raises("AttributeError")
    ELSE IF df.rows = <<>> THEN Returns(FALSE)
    ELSE IF DuplicatedProjectIds(df) THEN Returns(FALSE)
    ELSE IF UnparsedColumns(df) # {} THEN Raises("ValueError")
    ELSE IF \E y \in CalendarYearSuffixes(df) : ~(2000 <= y /\ y <= 2100)
        THEN Returns(FALSE)
    ELSE Returns(TRUE)

\* validation.py lines 36-68 on an array [numeric, val]; None has no attribute 'dtype'.
ValidateMatrix(m) ==
    IF m = None THEN Raises("AttributeError")
    ELSE IF ~m.numeric THEN Returns(FALSE)
    ELSE Returns(validate_project_correlation_matrix(m.val))

\* validation.py lines 89, 96: x < 0 on a float.
Negative(x) == x < 0

\* validation.py line 103: rate < 0 or rate > 1; both comparisons are False for nan.
RateOutOfRange(rate) ==
    \/ rate.kind = "-inf"
    \/ rate.kind = "inf"
    \/ rate.kind = "num" /\ (rate.q[1] < 0 \/ rate.q[1] > rate.q[2])

\* validation.py lines 70-107 on rows (year, std_dev, delivery, rate, offered).
validate_simulation_results(rs) ==
    IF rs = <<>> THEN Returns(FALSE)
    ELSE IF \E i \in 1..Len(rs) : Negative(rs[i][2]) THEN Returns(FALSE)
    ELSE IF \E i \in 1..Len(rs) : Negative(rs[i][3]) THEN Returns(FALSE)
    ELSE IF \E i \in 1..Len(rs) : RateOutOfRange(rs[i][4]) THEN Returns(FALSE)
    ELSE Returns(TRUE)

(***************************************************************************)
(* The inputs of the validators, and one call of a validator.              *)
(***************************************************************************)
\* validation.py line 30: the accepted calendar years.
MinCalendarYear == 2000

MaxCalendarYear == 2100

BoundaryYears ==
    {MinCalendarYear - 1, MinCalendarYear, MaxCalendarYear, MaxCalendarYear + 1}

\* A schedule row of project k with a value in every column.
ScheduleRow(k, columns) ==
    [id |-> [project_id |-> k, project_name |-> ProjectNames[k],
             start_year |-> MinCalendarYear, contract_duration |-> 1],
     val |-> [c \in Range(columns) |-> <<7>>]]

\* Schedules of up to MaxRows rows, with offered volume columns of boundary years
\* and possibly a column without a year suffix.
ValidatorSchedules ==
    {[id_columns |-> required_columns,
      columns |-> [k \in 1..Len(ys) |-> <<"offered_volume", ys[k]>>],
      other_columns |-> other,
      rows |-> [i \in 1..Len(ids) |->
                  ScheduleRow(ids[i], [k \in 1..Len(ys) |-> <<"offered_volume", ys[k]>>])]] :
        ys \in {SortedSeq(S) : S \in (SUBSET BoundaryYears) \ {{}}},
        other \in {{}, {"notes"}},
        ids \in UNION {[1..n -> 1..MaxRows] : n \in 0..MaxRows}}
    \cup {None}

Entry(n, d) == [nan |-> FALSE, q |-> Frac(n, d), e |-> 0]

MatrixEntries ==
    {Entry(-1, 1), Entry(0, 1), Entry(1, 2), Entry(1, 1), Entry(2, 1),
     [nan |-> TRUE, q |-> <<0, 1>>, e |-> 0]}

\* Square arrays up to MaxMatrixSize, numeric or of a non-numeric dtype.
ValidatorMatrices ==
    {[kind |-> "ndarray", numeric |-> TRUE, val |-> v] :
        v \in UNION {[1..n -> [1..n -> MatrixEntries]] : n \in 1..MaxMatrixSize}}
    \cup {[kind |-> "ndarray", numeric |-> FALSE, val |-> v] :
            v \in [1..1 -> [1..1 -> MatrixEntries]]}
    \cup {None}

ResultRates ==
    {[kind |-> "num", q |-> Frac(n, 2)] : n \in -1..3}
    \cup {[kind |-> "nan"], [kind |-> "inf"], [kind |-> "-inf"]}

ResultRows ==
    {<<FirstYear, std_dev, delivery, rate, 2>> :
        std_dev \in -1..1, delivery \in {-1, 0, 2}, rate \in ResultRates}

ValidatorResults == UNION {[1..n -> ResultRows] : n \in 0..MaxResultRows}

ValidatorNames ==
    {"validate_yearly_portfolio", "validate_project_correlation_matrix",
     "validate_simulation_results"}

InitValidate ==
    /\ pc \in ValidatorNames
    /\ yearly_portfolio_df \in
         IF pc = "validate_yearly_portfolio" THEN ValidatorSchedules
         ELSE {[kind |-> "unused"]}
    /\ project_correlation_matrix \in
         IF pc = "validate_project_correlation_matrix" THEN ValidatorMatrices
         ELSE {[kind |-> "unused"]}
    /\ results \in
         IF pc = "validate_simulation_results" THEN ValidatorResults ELSE {<<>>}
    /\ num_simulations = [int |-> TRUE, v |-> 1]
    /\ year = 0
    /\ outcome = [kind |-> "none"]
    /\ technology_correlation_matrix_df = [kind |-> "unused"]
    /\ country_correlation_matrix_df = [kind |-> "unused"]
    /\ returns = <<>>
    /\ portfolio_df = [kind |-> "unused"]
    /\ calls = <<>>
    /\ draws = <<>>
    /\ file_path = [kind |-> "unused"]

ValidateYearlyPortfolio ==
    /\ pc = "validate_yearly_portfolio"
    /\ outcome' = validate_yearly_portfolio(yearly_portfolio_df)
    /\ calls' = Append(calls, pc)
    /\ pc' = "done"
    /\ UNCHANGED <<file_path, draws, yearly_portfolio_df, simVars, corrVars, portfolio_df>>

ValidateProjectCorrelationMatrix ==
    /\ pc = "validate_project_correlation_matrix"
    /\ outcome' = ValidateMatrix(project_correlation_matrix)
    /\ calls' = Append(calls, pc)
    /\ pc' = "done"
    /\ UNCHANGED <<file_path, draws, yearly_portfolio_df, simVars, corrVars, portfolio_df>>

ValidateSimulationResults ==
    /\ pc = "validate_simulation_results"
    /\ outcome' = validate_simulation_results(results)
    /\ calls' = Append(calls, pc)
    /\ pc' = "done"
    /\ UNCHANGED <<file_path, draws, yearly_portfolio_df, simVars, corrVars, portfolio_df>>

NextValidate ==
    ValidateYearlyPortfolio \/ ValidateProjectCorrelationMatrix \/ ValidateSimulationResults

SpecValidate == InitValidate /\ [][NextValidate]_vars

\* A validator was called and this is what it delivered.
Validated(name) == pc = "done" /\ calls = <<name>>

\* The rate is a number r with 0 <= r <= 1.
InUnitInterval(rate) ==
    rate.kind = "num" /\ 0 <= rate.q[1] /\ rate.q[1] <= rate.q[2]

\* C15: validate_simulation_results returns True if and only if the result sequence
\* is non-empty and every row has std_dev >= 0, delivery_total >= 0 and a
\* delivery_rate r with 0 <= r <= 1; a row whose delivery_rate is not a number makes
\* it return False.
C15_ResultsValidIff ==
    Validated("validate_simulation_results") =>
        /\ outcome.kind = "return"
        /\ outcome.value <=>
             /\ results # <<>>
             /\ \A i \in 1..Len(results) :
                   /\ results[i][2] >= 0
                   /\ results[i][3] >= 0
                   /\ InUnitInterval(results[i][4])

\* C16: validate_yearly_portfolio returns True if and only if the schedule is
\* non-empty, no project_id occurs twice, and the calendar-year suffix of every
\* non-identity column lies in [2000, 2100]; it returns False (does not raise) in
\* each failing case.  Stated for schedule tables, whose non-identity columns all
\* are <quantity>_<year>.
C16_ScheduleValidIff ==
    (/\ Validated("validate_yearly_portfolio")
     /\ yearly_portfolio_df # None
     /\ UnparsedColumns(yearly_portfolio_df) = {}) =>
        /\ outcome.kind = "return"
        /\ outcome.value <=>
             /\ Len(yearly_portfolio_df.rows) > 0
             /\ Cardinality({yearly_portfolio_df.rows[i].id.project_id :
                               i \in 1..Len(yearly_portfolio_df.rows)})
                  = Len(yearly_portfolio_df.rows)
             /\ \A k \in 1..Len(yearly_portfolio_df.columns) :
                   yearly_portfolio_df.columns[k][2] \in MinCalendarYear..MaxCalendarYear

\* C16 witness: a schedule of two projects whose columns are the years 2000 and 2100
\* was accepted.
C16_Witness ==
    /\ Validated("validate_yearly_portfolio")
    /\ outcome = Returns(TRUE)
    /\ Len(yearly_portfolio_df.rows) = 2
    /\ CalendarYearSuffixes(yearly_portfolio_df) = {MinCalendarYear, MaxCalendarYear}

\* Twice the quadratic form x^T m x of a matrix whose denominators divide 2.
QuadraticForm(m, x) ==
    SumSeq([k \in 1..(Len(m) * Len(m)) |->
              LET i == ((k - 1) \div Len(m)) + 1
                  j == ((k - 1) % Len(m)) + 1
              IN  m[i][j].q[1] * (2 \div m[i][j].q[2]) * x[i] * x[j]])

\* C17: validate_project_correlation_matrix returns True if and only if the matrix
\* is numeric, symmetric, free of NaN and positive semi-definite, and returns False
\* (does not raise) when any one of the four conditions fails.
C17_MatrixValidIff ==
    (/\ Validated("validate_project_correlation_matrix")
     /\ project_correlation_matrix # None) =>
        LET m == project_correlation_matrix.val
        IN  /\ outcome.kind = "return"
            /\ outcome.value <=>
                 /\ project_correlation_matrix.numeric
                 /\ \A i, j \in 1..Len(m) : m[i][j].q = m[j][i].q
                 /\ \A i, j \in 1..Len(m) : ~m[i][j].nan
                 /\ \A x \in [1..Len(m) -> -3..3] : QuadraticForm(m, x) >= 0

\* C17 witness: a 2x2 numeric symmetric matrix with a zero eigenvalue was accepted.
C17_Witness ==
    /\ Validated("validate_project_correlation_matrix")
    /\ outcome = Returns(TRUE)
    /\ project_correlation_matrix.val
         = <<<<Entry(1, 1), Entry(1, 1)>>, <<Entry(1, 1), Entry(1, 1)>>>>

(***************************************************************************)
(* main (GHG_Port.py lines 9-52).  The stage functions are modelled in     *)
(* their own specifications; here a stage delivers any value of a small    *)
(* family (or raises), the validators are applied to what was delivered,   *)
(* and calls records every call main made with how it ended.               *)
(***************************************************************************)
Call(name, result) == [name |-> name, result |-> result]

\* How a validator outcome is logged.
Verdict(out) ==
    IF out.kind = "raise" THEN "raise" ELSE IF out.value THEN "True" ELSE "False"

\* A validation step that goes on whatever the validator returned.
AfterValidation_GoOn(out, next) == IF out.kind = "raise" THEN "raised" ELSE next

\* lines 27-28, 32-33, 38-39: `if not validate(...): return`; an exception leaves
\* through the except clause.
AfterValidation(out, next) ==
    IF out.kind = "raise" THEN "raised"
    ELSE IF out.value THEN next
    ELSE "returned"

\* io.py line 62: the parameters of print_and_export_simulation_results.
ExporterParameters == <<"results", "output_dir", "simulation_date">>

\* line 47: the positional arguments main passes to it.
ExporterArguments == <<"results", "output_dir", "simulation_date", "yearly_portfolio_df">>

\* A call binds when every positional argument has a parameter and every parameter
\* (none has a default) an argument.
Binds(arguments, parameters) == Len(arguments) = Len(parameters)

MainSchedules == ValidatorSchedules

MainMatrices == {m \in ValidatorMatrices : m = None \/ Len(m.val) = 1}

MainResults == {rs \in ValidatorResults : Len(rs) <= 1}

InitMain ==
    /\ pc = "load_excel_data"
    /\ yearly_portfolio_df = [kind |-> "unused"]
    /\ project_correlation_matrix = [kind |-> "unused"]
    /\ results = <<>>
    /\ num_simulations = [int |-> TRUE, v |-> 1]
    /\ year = 0
    /\ outcome = [kind |-> "none"]
    /\ technology_correlation_matrix_df = [kind |-> "unused"]
    /\ country_correlation_matrix_df = [kind |-> "unused"]
    /\ returns = <<>>
    /\ portfolio_df = [kind |-> "unused"]
    /\ calls = <<>>
    /\ draws = <<>>
    /\ file_path = [kind |-> "unused"]

\* The except clause of lines 50-52 logs and re-raises.
MainRaise(name, exc) ==
    /\ calls' = Append(calls, Call(name, "raise"))
    /\ pc' = "raised"
    /\ outcome' = Raises(exc)

\* line 23
MainLoad ==
    /\ pc = "load_excel_data"
    /\ \/ /\ calls' = Append(calls, Call(pc, "ok"))
          /\ pc' = "create_yearly_portfolio"
          /\ UNCHANGED outcome
       \/ \E exc \in {"FileNotFoundError", "ValueError"} : MainRaise(pc, exc)
    /\ UNCHANGED <<file_path, draws, yearly_portfolio_df, simVars, corrVars, portfolio_df>>

\* line 26
MainCreate ==
    /\ pc = "create_yearly_portfolio"
    /\ \/ \E df \in MainSchedules :
            /\ yearly_portfolio_df' = df
            /\ calls' = Append(calls, Call(pc, IF df = None THEN "None" ELSE "ok"))
            /\ pc' = "validate_yearly_portfolio"
            /\ UNCHANGED outcome
       \/ /\ MainRaise(pc, "KeyError")
          /\ UNCHANGED yearly_portfolio_df
    /\ UNCHANGED <<file_path, draws, simVars, corrVars, portfolio_df>>

\* lines 27-28
MainValidateSchedule ==
    /\ pc = "validate_yearly_portfolio"
    /\ LET out == validate_yearly_portfolio(yearly_portfolio_df)
       IN  /\ calls' = Append(calls, Call(pc, Verdict(out)))
           /\ pc' = AfterValidation(out, "build_project_correlation_matrix")
           /\ outcome' = IF out.kind = "raise" THEN out
                         ELSE IF out.value THEN outcome ELSE [kind |-> "return"]
    /\ UNCHANGED <<file_path, draws, yearly_portfolio_df, simVars, corrVars, portfolio_df>>

\* line 31
MainBuild ==
    /\ pc = "build_project_correlation_matrix"
    /\ \/ \E m \in MainMatrices :
            /\ project_correlation_matrix' = m
            /\ calls' = Append(calls, Call(pc, IF m = None THEN "None" ELSE "ok"))
            /\ pc' = "validate_project_correlation_matrix"
            /\ UNCHANGED outcome
       \/ /\ MainRaise(pc, "KeyError")
          /\ UNCHANGED project_correlation_matrix
    /\ UNCHANGED <<file_path, draws, yearly_portfolio_df, num_simulations, year, results, corrVars,
                   portfolio_df>>

\* lines 32-33
MainValidateMatrix ==
    /\ pc = "validate_project_correlation_matrix"
    /\ LET out == ValidateMatrix(project_correlation_matrix)
       IN  /\ calls' = Append(calls, Call(pc, Verdict(out)))
           /\ pc' = AfterValidation(out, "run_portfolio_simulation")
           /\ outcome' = IF out.kind = "raise" THEN out
                         ELSE IF out.value THEN outcome ELSE [kind |-> "return"]
    /\ UNCHANGED <<file_path, draws, yearly_portfolio_df, simVars, corrVars, portfolio_df>>

\* lines 36-37
MainSimulate ==
    /\ pc = "run_portfolio_simulation"
    /\ \/ \E rs \in MainResults :
            /\ results' = rs
            /\ calls' = Append(calls, Call(pc, "ok"))
            /\ pc' = "validate_simulation_results"
            /\ UNCHANGED outcome
       \/ /\ \E exc \in {"KeyError", "LinAlgError"} : MainRaise(pc, exc)
          /\ UNCHANGED results
    /\ UNCHANGED <<file_path, draws, yearly_portfolio_df, project_correlation_matrix,
                   num_simulations, year, corrVars, portfolio_df>>

\* lines 38-39
MainValidateResults ==
    /\ pc = "validate_simulation_results"
    /\ LET out == validate_simulation_results(results)
       IN  /\ calls' = Append(calls, Call(pc, Verdict(out)))
           /\ pc' = AfterValidation(out, "mkdir")
           /\ outcome' = IF out.kind = "raise" THEN out
                         ELSE IF out.value THEN outcome ELSE [kind |-> "return"]
    /\ UNCHANGED <<file_path, draws, yearly_portfolio_df, simVars, corrVars, portfolio_df>>

\* lines 42-44: the timestamped output directory is created.
MainMkdir ==
    /\ pc = "mkdir"
    /\ \/ /\ calls' = Append(calls, Call(pc, "ok"))
          /\ pc' = "export"
          /\ UNCHANGED outcome
       \/ MainRaise(pc, "OSError")
    /\ UNCHANGED <<file_path, draws, yearly_portfolio_df, simVars, corrVars, portfolio_df>>

\* lines 47-48: the two export calls.  A call that does not bind raises TypeError
\* before the exporter runs; the exporters catch their own exceptions.
MainExport ==
    /\ pc = "export"
    /\ IF Binds(ExporterArguments, ExporterParameters)
       THEN /\ calls' = calls \o <<Call("print_and_export_simulation_results", "ok"),
                                   Call("export_model_configuration", "ok")>>
            /\ pc' = "returned"
            /\ outcome' = [kind |-> "return"]
       ELSE MainRaise("print_and_export_simulation_results", "TypeError")
    /\ UNCHANGED <<file_path, draws, yearly_portfolio_df, simVars, corrVars, portfolio_df>>

NextMain ==
    \/ MainLoad
    \/ MainCreate
    \/ MainValidateSchedule
    \/ MainBuild
    \/ MainValidateMatrix
    \/ MainSimulate
    \/ MainValidateResults
    \/ MainMkdir
    \/ MainExport

SpecMain == InitMain /\ [][NextMain]_vars

(***************************************************************************)
(* Properties of main.                                                     *)
(***************************************************************************)
\* The validator was called before position k and returned True.
PassedBefore(validator, k) ==
    \E j \in 1..(k - 1) : calls[j] = Call(validator, "True")

OutputCalls ==
    {"mkdir", "print_and_export_simulation_results", "export_model_configuration"}

\* C13: each stage's output is validated before the next stage runs, the output
\* directory creation and both export calls happen only after the three validators
\* have all returned True, and after a validation that returned False or a stage that
\* failed no export is performed.
C13_ValidatedBeforeUse ==
    pc # "done" =>
        \A k \in 1..Len(calls) :
            /\ calls[k].name = "build_project_correlation_matrix"
                 => calls[k - 1] = Call("validate_yearly_portfolio", "True")
            /\ calls[k].name = "run_portfolio_simulation"
                 => calls[k - 1] = Call("validate_project_correlation_matrix", "True")
            /\ calls[k].name = "mkdir"
                 => calls[k - 1] = Call("validate_simulation_results", "True")
            /\ calls[k].name \in OutputCalls
                 => /\ \A v \in ValidatorNames : PassedBefore(v, k)
                    /\ \A j \in 1..(k - 1) : calls[j].result \notin {"False", "None", "raise"}

\* C13 witness: the three validations passed, the directory was created and the
\* export call was made.
C13_Witness ==
    /\ Len(calls) = 9
    /\ calls[8] = Call("mkdir", "ok")
    /\ calls[9].name = "print_and_export_simulation_results"

\* main has ended after all three validations passed and the directory was created.
EndedAfterValidation ==
    /\ pc \in {"returned", "raised"}
    /\ \A v \in ValidatorNames : PassedBefore(v, Len(calls) + 1)
    /\ \E k \in 1..Len(calls) : calls[k] = Call("mkdir", "ok")

\* C14: when all three validations pass, the call of
\* print_and_export_simulation_results with the results and the schedule is accepted
\* and completes, and the model-configuration export then runs.
C14_ExportsRun ==
    EndedAfterValidation =>
        \E k \in 1..(Len(calls) - 1) :
            /\ calls[k] = Call("print_and_export_simulation_results", "ok")
            /\ calls[k + 1] = Call("export_model_configuration", "ok")

(***************************************************************************)
(* Further properties of run_portfolio_simulation.                         *)
(***************************************************************************)
\* The row of a year depends on the normals drawn for it: more than one draw and
\* some non-zero sigma among the active projects.
DependsOnDraws(y) ==
    /\ num_simulations.v > 1
    /\ \E k \in 1..Len(ColumnValues(yearly_portfolio_df, "standard_deviation", y)) :
          ColumnValues(yearly_portfolio_df, "standard_deviation", y)[k] # 0

\* C18: no state carries over from one year's simulation to the next: with the same
\* seeded random source the row of a year y is the same whatever other years are in
\* the horizon and however many projects were active in earlier years.  A year's row
\* is computed from the slice of the seeded stream drawn for it, so the slice must be
\* the one a horizon that starts with y gets: it begins at the seed position.
C18_YearsIndependent ==
    pc \in {"loop", "done"} =>
        \A i \in 1..Len(draws) : DependsOnDraws(draws[i].year) => draws[i].first = 0

\* The schedule and matrix of the scenario.
IsScenario ==
    /\ pc \in {"idle", "loop", "done"}
    /\ yearly_portfolio_df.rows = <<ScenarioRow>>
    /\ project_correlation_matrix = NumericMatrix(Identity(1))
    /\ num_simulations.int /\ num_simulations.v > 0

\* C19: for the scenario (one project, start_year 2020, contract_duration 2, offered
\* 100, delivery volume 90, standard deviation 5 in 2020, matrix [[1]]) the call
\* returns a result with a row for 2020 that has delivery_total = 90 - 2 * std_dev and
\* delivery_rate = delivery_total / 100, and with no row outside [2020, 2021].
C19_Scenario ==
    (IsScenario /\ pc = "done") =>
        /\ outcome.kind = "return"
        /\ \E i \in 1..Len(outcome.value) :
              /\ outcome.value[i][1] = 2020
              /\ outcome.value[i][3] = 90 - 2 * outcome.value[i][2]
              /\ outcome.value[i][4] = FloatDiv(outcome.value[i][3], 100)
        /\ \A i \in 1..Len(outcome.value) : outcome.value[i][1] \in 2020..2021

(***************************************************************************)
(* The three core functions side by side: a behaviour is one call of the   *)
(* schedule builder, calls of the matrix builder, or one call of the       *)
(* simulator, on the inputs of the respective model.                       *)
(***************************************************************************)
Unused == [kind |-> "unused"]

InitCore == InitSchedule \/ InitCorr \/ InitSim

NextCore ==
    \/ portfolio_df # Unused /\ NextSchedule
    \/ technology_correlation_matrix_df # Unused /\ NextCorr
    \/ portfolio_df = Unused /\ technology_correlation_matrix_df = Unused /\ NextSim

SpecCore == InitCore /\ [][NextCore]_vars

\* The category table is as it was, or differs only in that its label column has
\* become the index.
OnlyPromoted(before, after) ==
    after = before \/ after = [before EXCEPT !.label_column = FALSE]

\* C20: create_yearly_portfolio and run_portfolio_simulation leave every table and
\* matrix passed to them unchanged; build_project_correlation_matrix leaves the
\* schedule unchanged and changes the caller's category matrices in no way other than
\* promoting their label column to the index; the project correlation matrix is
\* never modified after it is returned.
C20_InputsUnchanged ==
    [][/\ portfolio_df' = portfolio_df
       /\ yearly_portfolio_df' = yearly_portfolio_df
       /\ project_correlation_matrix' = project_correlation_matrix
       /\ OnlyPromoted(technology_correlation_matrix_df, technology_correlation_matrix_df')
       /\ OnlyPromoted(country_correlation_matrix_df, country_correlation_matrix_df')
       /\ \A k \in 1..Len(returns) : returns'[k] = returns[k]]_vars

\* C20 witness: the matrix builder returned a matrix and promoted the label column of
\* both category tables, and a further call was made on the same tables.
C20_Witness ==
    /\ Len(returns) = 2
    /\ returns[1].kind = "return"
    /\ ~technology_correlation_matrix_df.label_column
    /\ ~country_correlation_matrix_df.label_column

(***************************************************************************)
(* Further properties of build_project_correlation_matrix.                 *)
(***************************************************************************)
\* The distinct project names of the schedule.
DistinctNames ==
    {yearly_portfolio_df.rows[i].project_name : i \in 1..Len(yearly_portfolio_df.rows)}

\* The symmetrized composition taken row by row of the schedule: entry (i, j) is
\* that of the projects in schedule rows i and j, in units of 1 / SymScale.
ScheduleOrderSym ==
    LET rows == yearly_portfolio_df.rows
        Raw(i, j) ==
            technology_correlation_matrix_df.val[<<rows[i].technology,
                                                   rows[j].technology>>][1]
            * country_correlation_matrix_df.val[<<rows[i].country, rows[j].country>>][1]
    IN  [i \in 1..Len(rows) |-> [j \in 1..Len(rows) |-> Raw(i, j) + Raw(j, i)]]

\* C21: the returned matrix has one row and one column per distinct project_name of
\* the schedule, ordered by first appearance, so that row i of the matrix belongs to
\* the project of row i of a schedule with unique project names: the matrix is the
\* repair of the composition taken in schedule row order.
C21_RowsFollowSchedule ==
    ReturnedMatrix(1) =>
        LET m == returns[1].value
        IN  /\ Len(m) = Cardinality(DistinctNames)
            /\ \A i \in 1..Len(m) : Len(m[i]) = Cardinality(DistinctNames)
            /\ UniqueProjectNames =>
                 \E sym \in {ScheduleOrderSym} :
                    \E basis \in EigBases(sym) : m = Repair(sym, basis)

\* C21 witness: a matrix was returned for three distinctly named projects whose
\* pairwise compositions differ, so a different row order gives a different matrix.
C21_Witness ==
    /\ ReturnedMatrix(1)
    /\ UniqueProjectNames
    /\ Len(yearly_portfolio_df.rows) = 3
    /\ ScheduleOrderSym[1][2] # ScheduleOrderSym[2][3]

(***************************************************************************)
(* load_excel_data (utils/io.py lines 5-60) and the unpacking of its tuple *)
(* in main (GHG_Port.py line 23).                                          *)
(*                                                                         *)
(* The file at file_path is [exists, workbook, sheets]: whether the path   *)
(* exists, whether pd.read_excel can read it, and the table of every sheet *)
(* by sheet name.  A loaded table is [columns, nrows]; a column name is    *)
(* [name, str, risk_bucket]: its text, whether it is a string, and whether *)
(* its lower-cased text contains 'risk_bucket'.                            *)
(***************************************************************************)
\* The largest number of data rows of a sheet.
MaxSheetRows == 1

\* line 38
required_sheets ==
    <<"Portfolio", "Technology Correlation Matrix", "Country Correlation Matrix",
      "Default Rates", "Recovery Potential", "Model Config">>

\* DataFrame.empty: some axis has length 0.
DataFrameEmpty(table) == table.columns = {} \/ table.nrows = 0

\* line 39: the required sheets the workbook lacks.
MissingSheets(sheets) == Range(required_sheets) \ DOMAIN sheets

\* An emptiness check that looks at the Portfolio sheet only.
EmptyFrames_PortfolioOnly(sheets) ==
    {k \in {1} : DataFrameEmpty(sheets[required_sheets[k]])}

\* lines 43-55: the positions of the six loaded tables that are empty.
EmptyFrames(sheets) ==
    {k \in 1..Len(required_sheets) : DataFrameEmpty(sheets[required_sheets[k]])}

\* line 58: drop(columns=[col for col in columns if 'risk_bucket' in col.lower()])
DropRiskBucket(table) ==
    [table EXCEPT !.columns = {c \in @ : ~c.risk_bucket}]

\* lines 43-60: the tuple of the six tables, the Portfolio table without its
\* risk_bucket columns.
LoadedTuple(sheets) ==
    [k \in 1..Len(required_sheets) |->
        IF k = 1 THEN DropRiskBucket(sheets[required_sheets[1]])
        ELSE sheets[required_sheets[k]]]

\* The exceptions pd.read_excel raises on a file that is no readable workbook.
ReadErrors == {"ValueError", "BadZipFile"}

\* lines 32-60: what load_excel_data delivers for a file pd.read_excel can read, or
\* for a path that does not exist.
LoadOutcome(file) ==
    IF ~file.exists THEN Raises("FileNotFoundError")
    ELSE IF MissingSheets(file.sheets) # {} THEN Raises("ValueError")
    ELSE IF EmptyFrames(file.sheets) # {} THEN Raises("ValueError")
    ELSE IF \E c \in file.sheets[required_sheets[1]].columns : ~c.str
        THEN Raises("AttributeError")
    ELSE Returns(LoadedTuple(file.sheets))

\* io.py lines 5-60, called at GHG_Port.py line 23.
LoadExcelData ==
    /\ pc = "load_excel_data"
    /\ IF file_path.exists /\ ~file_path.workbook
       THEN \E exc \in ReadErrors : outcome' = Raises(exc)
       ELSE outcome' = LoadOutcome(file_path)
    /\ pc' = IF outcome'.kind = "return" THEN "unpack" ELSE "raised"
    /\ calls' = Append(calls, Call("load_excel_data", outcome'.kind))
    /\ UNCHANGED <<file_path, draws, yearly_portfolio_df, simVars, corrVars, portfolio_df>>

\* GHG_Port.py lines 23-26: the tuple is unpacked and the tables go to the core.
MainUnpack ==
    /\ pc = "unpack"
    /\ portfolio_df' = outcome.value[1]
    /\ technology_correlation_matrix_df' = outcome.value[2]
    /\ country_correlation_matrix_df' = outcome.value[3]
    /\ pc' = "create_yearly_portfolio"
    /\ calls' = Append(calls, Call("create_yearly_portfolio", "called"))
    /\ UNCHANGED <<file_path, draws, yearly_portfolio_df, simVars, returns, outcome>>

(***************************************************************************)
(* The inputs of the loader model.                                         *)
(***************************************************************************)
PlainColumn == [name |-> "project_id", str |-> TRUE, risk_bucket |-> FALSE]

RiskBucketColumn == [name |-> "Project_Risk_Bucket_1", str |-> TRUE, risk_bucket |-> TRUE]

NumberColumn == [name |-> "2020", str |-> FALSE, risk_bucket |-> FALSE]

\* A sheet without cells, with a header row only, or with data rows.
SheetShapes ==
    {[columns |-> {}, nrows |-> 0]}
    \cup {[columns |-> {PlainColumn}, nrows |-> n] : n \in 0..MaxSheetRows}

PortfolioShapes ==
    SheetShapes
    \cup {[columns |-> cols, nrows |-> MaxSheetRows] :
            cols \in {{PlainColumn, RiskBucketColumn}, {RiskBucketColumn},
                      {PlainColumn, NumberColumn}}}

DataSheet == [columns |-> {PlainColumn}, nrows |-> MaxSheetRows]

Workbook(sheets) == [exists |-> TRUE, workbook |-> TRUE, sheets |-> sheets]

\* Workbooks with every required sheet, of any shape.
WholeWorkbooks ==
    {Workbook(sheets) :
        sheets \in {f \in [Range(required_sheets) -> PortfolioShapes] :
                       \A k \in 2..Len(required_sheets) :
                           f[required_sheets[k]] \in SheetShapes}}

\* Workbooks of data sheets that lack some required sheets, or carry a further sheet.
PartialWorkbooks ==
    {Workbook([s \in names |-> DataSheet]) : names \in SUBSET Range(required_sheets)}
    \cup {Workbook([s \in Range(required_sheets) \cup {"Notes"} |->
                       IF s = "Notes" THEN shape ELSE DataSheet]) : shape \in SheetShapes}

LoadFiles ==
    WholeWorkbooks \cup PartialWorkbooks
    \cup {[exists |-> FALSE, workbook |-> FALSE, sheets |-> <<>>],
          [exists |-> TRUE, workbook |-> FALSE, sheets |-> <<>>]}

InitLoad ==
    /\ pc = "load_excel_data"
    /\ file_path \in LoadFiles
    /\ yearly_portfolio_df = [kind |-> "unused"]
    /\ project_correlation_matrix = [kind |-> "unused"]
    /\ num_simulations = [int |-> TRUE, v |-> 1]
    /\ year = 0
    /\ results = <<>>
    /\ outcome = [kind |-> "none"]
    /\ technology_correlation_matrix_df = [kind |-> "unused"]
    /\ country_correlation_matrix_df = [kind |-> "unused"]
    /\ returns = <<>>
    /\ portfolio_df = [kind |-> "unused"]
    /\ calls = <<>>
    /\ draws = <<>>

NextLoad == LoadExcelData \/ MainUnpack

SpecLoad == InitLoad /\ [][NextLoad]_vars

(***************************************************************************)
(* Properties of load_excel_data.                                          *)
(***************************************************************************)
\* No table has been handed to the core.
CoreHasNoTable ==
    /\ portfolio_df = Unused
    /\ technology_correlation_matrix_df = Unused
    /\ country_correlation_matrix_df = Unused

\* Some required sheet is absent from the workbook.
SheetAbsent == \E k \in 1..Len(required_sheets) : required_sheets[k] \notin DOMAIN file_path.sheets

\* Some required sheet that is present has no row or no column.
SheetIsEmpty ==
    \E k \in 1..Len(required_sheets) :
        /\ required_sheets[k] \in DOMAIN file_path.sheets
        /\ \/ file_path.sheets[required_sheets[k]].nrows = 0
           \/ file_path.sheets[required_sheets[k]].columns = {}

\* C22: load_excel_data returns its tuple of tables only when the file exists, every
\* required sheet is present and none of the loaded sheets is empty; otherwise it
\* raises (FileNotFoundError for a missing file, ValueError for a missing or an empty
\* sheet) and no table reaches the core.
C22_LoaderContract ==
    (file_path # Unused /\ pc # "load_excel_data") =>
        /\ outcome.kind \in {"return", "raise"}
        /\ outcome.kind = "return" =>
             file_path.exists /\ ~SheetAbsent /\ ~SheetIsEmpty
        /\ ~file_path.exists => outcome = Raises("FileNotFoundError")
        /\ (file_path.exists /\ file_path.workbook /\ (SheetAbsent \/ SheetIsEmpty)) =>
             outcome = Raises("ValueError")
        /\ outcome.kind = "raise" => CoreHasNoTable /\ pc = "raised"

\* C22 witness: a workbook whose Portfolio sheet has a risk_bucket column was loaded
\* and its tables were handed to the core.
C22_Witness ==
    /\ file_path # Unused
    /\ pc = "create_yearly_portfolio"
    /\ RiskBucketColumn \in file_path.sheets["Portfolio"].columns
    /\ portfolio_df = [columns |-> {PlainColumn}, nrows |-> MaxSheetRows]
    /\ technology_correlation_matrix_df = file_path.sheets["Technology Correlation Matrix"]

\* The product and the sum of two fractions, as exact fractions.
RMul(x, y) == Frac(x[1] * y[1], x[2] * y[2])

\* A category correlation as a fraction: the table holds it times CatScale.
Correlation(cat, a, b) == Frac(cat.val[<<a, b>>][1], CatScale)

\* The project of a name in a schedule with unique project names.
ProjectOf(name) ==
    CHOOSE i \in 1..Len(yearly_portfolio_df.rows) :
        yearly_portfolio_df.rows[i].project_name = name

\* tech_corr[tech(p), tech(q)] * country_corr[country(p), country(q)] for the
\* projects in schedule rows p and q.
Composed(p, q) ==
    RMul(Correlation(technology_correlation_matrix_df,
                     yearly_portfolio_df.rows[p].technology,
                     yearly_portfolio_df.rows[q].technology),
         Correlation(country_correlation_matrix_df,
                     yearly_portfolio_df.rows[p].country,
                     yearly_portfolio_df.rows[q].country))

\* The composed matrix the builder holds before line 148, as integers.
CurrentRaw ==
    RawMatrix(UniqueNames(yearly_portfolio_df.rows, {}),
              ToDict(yearly_portfolio_df, "technology"),
              ToDict(yearly_portfolio_df, "country"),
              technology_correlation_matrix_df, country_correlation_matrix_df)

\* The two-project case of the claim: technologies A and B with tech_corr[A,B] = 0.5,
\* countries X and Y with country_corr[X,Y] = 0.5, both tables symmetric.
HalfHalfCase ==
    /\ Len(yearly_portfolio_df.rows) = 2
    /\ yearly_portfolio_df.rows[1].technology = "A"
    /\ yearly_portfolio_df.rows[2].technology = "B"
    /\ yearly_portfolio_df.rows[1].country = "X"
    /\ yearly_portfolio_df.rows[2].country = "Y"
    /\ Correlation(technology_correlation_matrix_df, "A", "B") = <<1, 2>>
    /\ Correlation(technology_correlation_matrix_df, "B", "A") = <<1, 2>>
    /\ Correlation(country_correlation_matrix_df, "X", "Y") = <<1, 2>>
    /\ Correlation(country_correlation_matrix_df, "Y", "X") = <<1, 2>>

\* The inputs of the builder pass every check of lines 88-112, so the builder
\* composes a matrix from them.
BuilderPassesChecks ==
    technology_correlation_matrix_df # Unused /\ ExpectedFailure = "none"

\* C23: before repair, for every ordered pair of projects (p, q) the composed entry
\* is tech_corr[tech(p), tech(q)] * country_corr[country(p), country(q)] and the
\* symmetrized entry is (raw[p, q] + raw[q, p]) / 2; for two projects with
\* tech_corr[A,B] = 0.5 and country_corr[X,Y] = 0.5 the off-diagonal entry is 0.25.
C23_ComposeThenSymmetrize ==
    (BuilderPassesChecks /\ UniqueProjectNames) =>
        LET names == UniqueNames(yearly_portfolio_df.rows, {})
        IN  /\ \A p, q \in 1..Len(names) :
                /\ Frac(CurrentRaw[p][q], CatScale * CatScale)
                     = Composed(ProjectOf(names[p]), ProjectOf(names[q]))
                /\ Frac(CurrentSym[p][q], SymScale)
                     = RMul(RAdd(Composed(ProjectOf(names[p]), ProjectOf(names[q])),
                                 Composed(ProjectOf(names[q]), ProjectOf(names[p]))),
                            <<1, 2>>)
            /\ HalfHalfCase =>
                 /\ Frac(CurrentSym[1][2], SymScale) = <<1, 4>>
                 /\ Frac(CurrentSym[2][1], SymScale) = <<1, 4>>

\* C23 witness: a matrix was returned for two projects whose technology table holds
\* different correlations for (A, B) and (B, A), so the symmetrized entry differs from
\* both composed entries.
C23_Witness ==
    /\ ReturnedMatrix(1)
    /\ UniqueProjectNames
    /\ Len(yearly_portfolio_df.rows) = 2
    /\ CurrentRaw[1][2] # CurrentRaw[2][1]
    /\ CurrentSym[1][2] # 2 * CurrentRaw[1][2]
    /\ CurrentSym[1][2] # 2 * CurrentRaw[2][1]

(***************************************************************************)
(* Properties of the year loop of run_portfolio_simulation.                *)
(***************************************************************************)
\* The loop is about to process a year with at least one active project.
AtActiveYear ==
    /\ pc = "loop"
    /\ year <= LastYear(yearly_portfolio_df)
    /\ \E i \in 1..Len(yearly_portfolio_df.rows) : InSpan(yearly_portfolio_df.rows[i], year)

\* The schedule rows, by position, whose contract span holds the year.
PositionsInSpan(y) ==
    {i \in 1..Len(yearly_portfolio_df.rows) : InSpan(yearly_portfolio_df.rows[i], y)}

\* C24: for each year y of the horizon the simulator uses exactly the projects with
\* start_year <= y < start_year + contract_duration, and the k-th row and column of
\* the active sub-matrix are the full-matrix row and column of the project of the k-th
\* entry of the mean, sigma and offered vectors, whatever the row index labels of the
\* schedule are: the matrix positions selected are the positions of the active rows.
C24_SubMatrixOfActiveRows ==
    AtActiveYear =>
        /\ {i \in 1..Len(yearly_portfolio_df.rows) :
               ActiveFilter(yearly_portfolio_df, year)[i]} = PositionsInSpan(year)
        /\ {i \in 1..Len(yearly_portfolio_df.rows) :
               ActiveProjectIndices(yearly_portfolio_df, year)[i]} = PositionsInSpan(year)

\* The arguments pass the checks of lines 190-198 and the matrix is a numeric array
\* with one row and column per schedule row.
SimArgumentsFit ==
    /\ ArgumentError(yearly_portfolio_df, project_correlation_matrix, num_simulations)
         = "none"
    /\ project_correlation_matrix.numeric
    /\ Len(project_correlation_matrix.val) = Len(yearly_portfolio_df.rows)
    /\ \A r \in 1..Len(project_correlation_matrix.val) :
          Len(project_correlation_matrix.val[r]) = Len(yearly_portfolio_df.rows)

\* The schedule lacks one of the three columns of year y.
MissingYearColumn(y) ==
    \E quantity \in SimQuantities : <<quantity, y>> \notin yearly_portfolio_df.columns

\* The matrix of the projects in span in year y has no Cholesky factor.
CholeskyFails(y) ==
    ~CholeskySucceeds(SubMatrix(project_correlation_matrix.val,
                                [i \in 1..Len(yearly_portfolio_df.rows) |->
                                    InSpan(yearly_portfolio_df.rows[i], y)]))

\* The years with an active project whose processing fails.
FailingYears ==
    {y \in YearsWithActiveProject(yearly_portfolio_df) :
        MissingYearColumn(y) \/ CholeskyFails(y)}

\* C25: if processing any single year fails (a project is active in a year without
\* its delivery_volume, standard_deviation or offered_volume column: KeyError; or the
\* Cholesky factorization of the active sub-matrix fails), the run aborts by raising:
\* no result sequence is returned, the rows computed for earlier years are not
\* delivered and no later year is processed.
C25_FailedYearAbortsRun ==
    (pc = "done" /\ SimArgumentsFit /\ FailingYears # {}) =>
        LET first == CHOOSE y \in FailingYears : \A z \in FailingYears : y <= z
        IN  /\ outcome.kind = "raise"
            /\ DOMAIN outcome = {"kind", "exc", "msg"}
            /\ MissingYearColumn(first) => outcome.exc = "KeyError"
            /\ ~MissingYearColumn(first) => outcome.exc = "LinAlgError"
            /\ year = first
            /\ \A i \in 1..Len(results) : results[i][1] < first
            /\ \A i \in 1..Len(draws) : draws[i].year < first

\* C25 witness: a run raised in a year after it had computed the row of an earlier
\* year and before the last year of the horizon.
C25_Witness ==
    /\ pc = "done"
    /\ SimArgumentsFit
    /\ FailingYears # {}
    /\ outcome.kind = "raise"
    /\ Len(results) >= 1
    /\ year < LastYear(yearly_portfolio_df)

(***************************************************************************)
(* Further properties of create_yearly_portfolio.                          *)
(***************************************************************************)
\* The place of a quantity in the fixed order offered_volume, standard_deviation,
\* delivery_volume, expected_value_percentage (0: not one of the four).
QuantityRank(name) ==
    CASE name = "offered_volume" -> 1
      [] name = "standard_deviation" -> 2
      [] name = "delivery_volume" -> 3
      [] name = "expected_value_percentage" -> 4
      [] OTHER -> 0

\* C26: in the returned table the identity columns come first, then the per-year
\* columns grouped by quantity in the order offered_volume, standard_deviation,
\* delivery_volume, expected_value_percentage, and within each quantity the calendar
\* years are strictly ascending.
C26_ColumnOrder ==
    ScheduleReturned =>
        LET cols == outcome.value.column_order
            ids == Cardinality(required_columns)
        IN  /\ Len(cols) >= ids
            /\ {cols[k].name : k \in 1..ids} = required_columns
            /\ \A k \in 1..ids : cols[k].year = Null
            /\ \A k \in (ids + 1)..Len(cols) :
                  cols[k].year # Null /\ QuantityRank(cols[k].name) > 0
            /\ \A i, j \in (ids + 1)..Len(cols) :
                  i < j =>
                    \/ QuantityRank(cols[i].name) < QuantityRank(cols[j].name)
                    \/ /\ cols[i].name = cols[j].name
                       /\ cols[i].year[1] < cols[j].year[1]

\* C26 witness: a table was returned with two calendar years for each quantity.
C26_Witness ==
    /\ ScheduleReturned
    /\ Len(outcome.value.column_order) >= Cardinality(required_columns) + 8

\* The quantity an input column <quantity>_year_<n> names: its quantity prefix, and
\* offered_volume when the name carries none.
NamedQuantity(c) == IF c.quantity = "" THEN "offered_volume" ELSE c.quantity

\* The per-year columns of the project table that hold a value in row i.
FilledYearColumns(i) ==
    {c \in portfolio_df.value_columns : c.year_n # 0 /\ portfolio_df.rows[i].val[c] # Null}

\* The schedule builder was called on a table that passes its argument checks and
\* has no two rows of the same project identity.
ScheduleBuilt ==
    /\ portfolio_df # Unused
    /\ outcome.kind # "none"
    /\ CreateArgumentError(portfolio_df) = "none"
    /\ \A i, j \in 1..Len(portfolio_df.rows) :
          i # j => portfolio_df.rows[i].id # portfolio_df.rows[j].id

\* C27: an input column <quantity>_year_<n> goes to the output quantity <quantity> at
\* calendar year start_year + n - 1, offered_volume being used only when the name
\* carries no quantity prefix; two input columns of different quantities for the
\* same year index never land on the same output field.
C27_ColumnToField ==
    ScheduleBuilt =>
        \A i \in 1..Len(portfolio_df.rows) :
            /\ \A c \in FilledYearColumns(i) :
                  /\ Variable(c) = NamedQuantity(c)
                  /\ outcome.kind = "return"
                  /\ \E k \in 1..Len(outcome.value.rows) :
                        /\ outcome.value.rows[k].id = portfolio_df.rows[i].id
                        /\ <<NamedQuantity(c),
                             portfolio_df.rows[i].id.start_year + c.year_n - 1>>
                             \in Range(outcome.value.columns)
                        /\ outcome.value.rows[k].val[
                             <<NamedQuantity(c),
                               portfolio_df.rows[i].id.start_year + c.year_n - 1>>] # Null
            /\ \A c, d \in FilledYearColumns(i) :
                  (c.quantity # d.quantity /\ c.year_n = d.year_n) =>
                      Variable(c) # Variable(d)

\* No two schedule rows carry the same index label.
UniqueIndexLabels ==
    \A i, j \in 1..Len(yearly_portfolio_df.rows) :
        i # j => yearly_portfolio_df.rows[i].index # yearly_portfolio_df.rows[j].index

\* The value of a field with a missing value counted as 0.
ValueOrZero(cell) == IF cell = Null THEN 0 ELSE cell[1]

\* The sum of a quantity over the projects in span in year y, missing values as 0.
RECURSIVE TotalInSpan(_, _, _)
TotalInSpan(quantity, y, i) ==
    IF i = 0 THEN 0
    ELSE TotalInSpan(quantity, y, i - 1)
         + (IF InSpan(yearly_portfolio_df.rows[i], y)
            THEN ValueOrZero(yearly_portfolio_df.rows[i][quantity]) ELSE 0)

\* Some project in span in year y has a missing value in one of its three fields.
MissingValueIn(y) ==
    \E i \in PositionsInSpan(y), quantity \in SimQuantities :
        yearly_portfolio_df.rows[i][quantity] = Null

\* C28: for a year y whose three columns exist, a missing value in an active
\* project's delivery_volume_y, standard_deviation_y or offered_volume_y field is
\* treated as 0: the project stays in the active set, the three vectors keep the
\* length of the active set, and the run does not fail on that account.
C28_MissingValueIsZero ==
    /\ (AtActiveYear /\ ~MissingYearColumn(year)) =>
          \A quantity \in SimQuantities :
              /\ Len(ColumnValues(yearly_portfolio_df, quantity, year))
                   = Cardinality(PositionsInSpan(year))
              /\ SumSeq(ColumnValues(yearly_portfolio_df, quantity, year))
                   = TotalInSpan(quantity, year, Len(yearly_portfolio_df.rows))
    /\ (pc = "done" /\ SimArgumentsFit /\ UniqueIndexLabels /\ FailingYears = {}) =>
          /\ outcome.kind = "return"
          /\ \A y \in YearsWithActiveProject(yearly_portfolio_df) :
                \E k \in 1..Len(outcome.value) :
                    /\ outcome.value[k][1] = y
                    /\ outcome.value[k][5]
                         = TotalInSpan("offered_volume", y, Len(yearly_portfolio_df.rows))
                    /\ TotalInSpan("standard_deviation", y, Len(yearly_portfolio_df.rows)) = 0
                         => outcome.value[k][2] = 0

\* C28 witness: a run returned a row for a year in which one active project had no
\* value in any of its three fields and another had all three.
C28_Witness ==
    /\ Returned
    /\ \E y \in YearsWithActiveProject(yearly_portfolio_df) :
          /\ \E i \in PositionsInSpan(y) :
                \A quantity \in SimQuantities : yearly_portfolio_df.rows[i][quantity] = Null
          /\ \E i \in PositionsInSpan(y) :
                \A quantity \in SimQuantities : yearly_portfolio_df.rows[i][quantity] # Null
          /\ \E k \in 1..Len(outcome.value) :
                outcome.value[k][1] = y /\ outcome.value[k][5] = 2

====
